---- MODULE Spec2Model ----
(***************************************************************************)
(* Brain Hub: the session registry, the benchmark and map-reduce           *)
(* coordinators, the TTL key-value store with its alarm, and the           *)
(* nearest-neighbour distance, as state machines.  Every `await` of the    *)
(* source is a suspension point: a handler is one action per segment       *)
(* between two awaits.                                                     *)
(***************************************************************************)
EXTENDS Integers, Sequences, FiniteSets, TLC

(***************************************************************************)
(* Bounds of the model.                                                    *)
(***************************************************************************)
MaxTicks == 2
MaxKvOps == 2
MaxVecLen == 2
MaxCoord == 1
MaxHandles == 2
MaxBench == 1
MaxMapReduces == 1
MaxTasks == 2
MaxBroadcasts == 1
MaxRequests == 1

(***************************************************************************)
(* Program constants.                                                      *)
(***************************************************************************)
MsPerSecond == 1000
\* JSON null in `expiresAt` and a missing alarm: both are tested by
\* truthiness in the source, so null and 0 are the same case.
NoExpiry == 0
NoAlarm == 0

TickMs == MsPerSecond
MaxTime == MaxTicks * TickMs

VARIABLES
    \* ---- KV store (DurableObjectState.storage) ----
    store,      \* key -> stored entry {value, expiresAt}
    alarm,      \* the single alarm slot; NoAlarm when unset
    now,        \* Date.now()
    kvOps,      \* runCommand KV handlers in flight, per slot
    alarmProc,  \* the alarm handler in flight
    lastPut,    \* history: per key, the last successful put (or delete)
    \* ---- distance ----
    vecA, vecB, distOut,
    \* ---- session registry ----
    clients,    \* HubApi.clients: the stubs (session handles), in order
    joinProc,   \* addClient calls, per handle: where each one stands
    flying,     \* client-left deliveries in flight (not awaited)
    leaves,     \* history: disconnects and evictions that removed an entry
    events,     \* what the last step did, in program order: the messages
                \* handed to session stubs, the departures notified to the
                \* coordinators, the request timer that fired
    bcast,      \* HubApi.broadcast called over RPC: where the call stands
    \* ---- benchmark coordinator ----
    bench,      \* pendingBenchmarks and each request's dispatch
    benchSummary, \* the summaries handed to the resolvers
    reportReply, \* what the report command handled in the last step
                 \* returned (NoReport after any other step)
    \* ---- map-reduce coordinator ----
    mr,         \* pendingMapReduces and the task objects of each request
    mrProc,     \* dispatchMapReduceTask calls waiting for a delivery
    mrTimers,   \* the setTimeout(0) reassignments not yet run
    mrSummary   \* the summaries handed to the resolvers

kvVars == <<store, alarm, now, kvOps, alarmProc, lastPut>>
distVars == <<vecA, vecB, distOut>>
regVars == <<clients, joinProc, flying, leaves, events, bcast>>
benchVars == <<bench, benchSummary, reportReply>>
mrVars == <<mr, mrProc, mrTimers, mrSummary>>
hubVars == <<regVars, benchVars, mrVars>>

(***************************************************************************)
(* HubApi.distance                                                         *)
(* The result sqrt(sum) + dimensionPenalty is kept exact as the pair       *)
(* (radicand, penalty); +Infinity is its own value.                        *)
(***************************************************************************)
Min(a, b) == IF a < b THEN a ELSE b
Abs(x) == IF x < 0 THEN -x ELSE x

Infinity == [finite |-> FALSE, radicand |-> 0, penalty |-> 0]
Finite(s, p) == [finite |-> TRUE, radicand |-> s, penalty |-> p]
Zero == Finite(0, 0)

RECURSIVE SumSq(_, _, _)
SumSq(a, b, n) ==
    IF n = 0 THEN 0
    ELSE SumSq(a, b, n - 1) + (a[n] - b[n]) * (a[n] - b[n])

RECURSIVE SumDiffNoSquare(_, _, _)
SumDiffNoSquare(a, b, n) ==
    IF n = 0 THEN 0
    ELSE SumDiffNoSquare(a, b, n - 1) + (a[n] - b[n])

distance_signedDiff(a, b) ==
    LET length == Min(Len(a), Len(b)) IN
    IF length = 0 THEN Infinity
    ELSE Finite(SumDiffNoSquare(a, b, length), Abs(Len(a) - Len(b)))

distance(a, b) ==
    LET length == Min(Len(a), Len(b)) IN
    IF length = 0 THEN Infinity
    ELSE Finite(SumSq(a, b, length), Abs(Len(a) - Len(b)))

Coords == (0 - MaxCoord)..MaxCoord
Vectors == UNION {[1..n -> Coords] : n \in 0..MaxVecLen}

NoDist == [ab |-> Infinity, ba |-> Infinity, aa |-> Infinity, done |-> FALSE]

ComputeDistance ==
    /\ ~distOut.done
    /\ distOut' = [ab |-> distance(vecA, vecB), ba |-> distance(vecB, vecA),
                   aa |-> distance(vecA, vecA), done |-> TRUE]
    /\ UNCHANGED <<vecA, vecB>>
    /\ UNCHANGED kvVars
    /\ UNCHANGED hubVars

(***************************************************************************)
(* KV store with TTL: runCommand put / get / delete / expire / ttl and     *)
(* RpcHub.handleAlarm, scheduleAlarmForExpiration, scheduleNextAlarm.      *)
(* A storage operation on one key or on the alarm slot takes effect when   *)
(* it is issued and its handler resumes in a later step; storage.list      *)
(* reads when it completes.  A handler's final segment, which only builds  *)
(* the response, is folded into the step before it.                        *)
(***************************************************************************)
KeyOrder == <<"k1", "k2">>
KvKeys == {KeyOrder[i] : i \in 1..Len(KeyOrder)}
KvValues == {"a", "b"}
\* parts[3] of `put`: absent, 0 and NaN all take the falsy branch (0 here)
PutTtls == {0, 1}
\* parts[2] of `expire`: 0 stands for the rejected inputs (NaN, <= 0)
ExpireSeconds == {0, 1}
KvSlots == 1..MaxKvOps

NoEntry == [present |-> FALSE, value |-> "", expiresAt |-> NoExpiry]
Entry(v, e) == [present |-> TRUE, value |-> v, expiresAt |-> e]

\* The response of `get`, with what the handler read: `due` is "the entry
\* read had expiresAt <= Date.now()", `last` the value of the last
\* successful put of the key ("" when none, or deleted or expired since).
NoReply == [status |-> "", value |-> "", expired |-> FALSE,
            due |-> FALSE, last |-> ""]
IdleOp == [op |-> "none", key |-> "", ttl |-> 0, pc |-> "idle",
           data |-> NoEntry, t |-> 0, reply |-> NoReply]
IdleAlarm == [pc |-> "idle", todo |-> <<>>, t |-> 0]

Tick ==
    /\ now < MaxTime
    /\ now' = now + TickMs
    /\ UNCHANGED <<store, alarm, kvOps, alarmProc, lastPut>>
    /\ UNCHANGED distVars
    /\ UNCHANGED hubVars

\* the handlers in flight: KV commands and the alarm handler
InFlight ==
    Cardinality({s \in KvSlots : kvOps[s].pc # "idle"})
       + (IF alarmProc.pc = "idle" THEN 0 ELSE 1)

\* A command is taken by the lowest free slot.
FreeSlot(s) ==
    /\ InFlight < MaxKvOps
    /\ kvOps[s].pc = "idle"
    /\ \A r \in KvSlots : r < s => kvOps[r].pc # "idle"

Return(s) == kvOps' = [kvOps EXCEPT ![s] = IdleOp]
Goto(s, o) == kvOps' = [kvOps EXCEPT ![s] = o]

\* data.expiresAt && Date.now() > data.expiresAt
get_isExpired(e, t) == e.expiresAt # NoExpiry /\ t > e.expiresAt

\* Math.ceil((expiresAt - Date.now()) / 1000) <= 0
ttl_isExpired(e, t) == e.expiresAt - t <= 0

\* History: a removal of an entry that is past its expiry ends the put.
LastPutAfterRemoval(k) ==
    IF store[k].present /\ store[k].expiresAt # NoExpiry
       /\ now >= store[k].expiresAt
    THEN [lastPut EXCEPT ![k] = ""]
    ELSE lastPut

\* ---- put <key> <value> [ttl] ----
PutStart(s, k, v, ttl) ==
    LET data == Entry(v, IF ttl # 0 THEN now + ttl * MsPerSecond
                                    ELSE NoExpiry) IN
    /\ FreeSlot(s)
    /\ store' = [store EXCEPT ![k] = data]
    /\ lastPut' = [lastPut EXCEPT ![k] = v]
    /\ IF ttl # 0
       THEN Goto(s, [IdleOp EXCEPT !.op = "put", !.ttl = ttl,
                                   !.pc = "put_stored"])
       ELSE Return(s)
    /\ UNCHANGED <<alarm, now, alarmProc>>
    /\ UNCHANGED distVars
    /\ UNCHANGED hubVars

\* ---- scheduleAlarmForExpiration(newExpiration) ----
scheduleAlarm_needsSet(cur, t) == cur = NoAlarm \/ t < cur

\* storage.put resolved: Date.now() is read again, getAlarm is issued
PutStored(s) ==
    LET o == kvOps[s] IN
    /\ o.pc = "put_stored"
    /\ Goto(s, [o EXCEPT !.pc = "sched_get",
                         !.t = now + o.ttl * MsPerSecond,
                         !.data = [NoEntry EXCEPT !.expiresAt = alarm]])
    /\ UNCHANGED <<store, alarm, now, alarmProc, lastPut>>
    /\ UNCHANGED distVars
    /\ UNCHANGED hubVars

\* getAlarm resolved with the value o.data.expiresAt; setAlarm is issued
SchedGetAlarm(s) ==
    LET o == kvOps[s] IN
    /\ o.pc = "sched_get"
    /\ alarm' = IF scheduleAlarm_needsSet(o.data.expiresAt, o.t)
                THEN o.t ELSE alarm
    /\ Return(s)
    /\ UNCHANGED <<store, now, alarmProc, lastPut>>
    /\ UNCHANGED distVars
    /\ UNCHANGED hubVars

\* ---- get <key> ----
GetReply(st, v, ex, raw, k) ==
    [IdleOp EXCEPT !.op = "get", !.pc = "get_return", !.reply =
       [status |-> st, value |-> v, expired |-> ex,
        due |-> raw.present /\ raw.expiresAt # NoExpiry
                /\ raw.expiresAt <= now,
        last |-> lastPut[k]]]

GetStart(s, k) ==
    LET raw == store[k] IN
    /\ FreeSlot(s)
    /\ IF ~raw.present
       THEN Goto(s, GetReply("null", "", FALSE, raw, k))
       ELSE IF get_isExpired(raw, now)
            THEN Goto(s, [IdleOp EXCEPT !.op = "get", !.key = k,
                                        !.pc = "get_delete"])
            ELSE Goto(s, GetReply("value", raw.value, FALSE, raw, k))
    /\ UNCHANGED <<store, alarm, now, alarmProc, lastPut>>
    /\ UNCHANGED distVars
    /\ UNCHANGED hubVars

\* storage.get resolved with an expired entry: storage.delete is issued
GetDelete(s) ==
    LET o == kvOps[s] IN
    /\ o.pc = "get_delete"
    /\ store' = [store EXCEPT ![o.key] = NoEntry]
    /\ lastPut' = LastPutAfterRemoval(o.key)
    /\ Goto(s, [IdleOp EXCEPT !.op = "get", !.pc = "get_return",
                   !.reply = [NoReply EXCEPT !.status = "null",
                                !.expired = TRUE, !.due = TRUE]])
    /\ UNCHANGED <<alarm, now, alarmProc>>
    /\ UNCHANGED distVars
    /\ UNCHANGED hubVars

\* the response is handed to the caller
GetReturn(s) ==
    /\ kvOps[s].pc = "get_return"
    /\ Return(s)
    /\ UNCHANGED <<store, alarm, now, alarmProc, lastPut>>
    /\ UNCHANGED distVars
    /\ UNCHANGED hubVars

\* ---- delete <key> ----
Delete(s, k) ==
    /\ FreeSlot(s)
    /\ store' = [store EXCEPT ![k] = NoEntry]
    /\ lastPut' = [lastPut EXCEPT ![k] = ""]
    /\ UNCHANGED <<alarm, now, kvOps, alarmProc>>
    /\ UNCHANGED distVars
    /\ UNCHANGED hubVars

\* ---- expire <key> <seconds> ----
ExpireStart(s, k, secs) ==
    /\ FreeSlot(s)
    /\ IF secs <= 0 \/ ~store[k].present
       THEN UNCHANGED kvOps
       ELSE Goto(s, [IdleOp EXCEPT !.op = "expire", !.key = k, !.ttl = secs,
                                   !.pc = "expire_read", !.data = store[k]])
    /\ UNCHANGED <<store, alarm, now, alarmProc, lastPut>>
    /\ UNCHANGED distVars
    /\ UNCHANGED hubVars

\* storage.get resolved: expiresAt is computed, storage.put is issued
ExpireRead(s) ==
    LET o == kvOps[s]
        data == [o.data EXCEPT !.expiresAt = now + o.ttl * MsPerSecond] IN
    /\ o.pc = "expire_read"
    /\ store' = [store EXCEPT ![o.key] = data]
    /\ Goto(s, [o EXCEPT !.pc = "expire_stored", !.t = data.expiresAt,
                         !.data = NoEntry, !.key = ""])
    /\ UNCHANGED <<alarm, now, alarmProc, lastPut>>
    /\ UNCHANGED distVars
    /\ UNCHANGED hubVars

\* storage.put resolved: getAlarm is issued
ExpireStored(s) ==
    LET o == kvOps[s] IN
    /\ o.pc = "expire_stored"
    /\ Goto(s, [o EXCEPT !.pc = "sched_get",
                         !.data = [NoEntry EXCEPT !.expiresAt = alarm]])
    /\ UNCHANGED <<store, alarm, now, alarmProc, lastPut>>
    /\ UNCHANGED distVars
    /\ UNCHANGED hubVars

\* ---- ttl <key> ----
TtlStart(s, k) ==
    LET raw == store[k] IN
    /\ FreeSlot(s)
    /\ IF raw.present /\ raw.expiresAt # NoExpiry /\ ttl_isExpired(raw, now)
       THEN Goto(s, [IdleOp EXCEPT !.op = "ttl", !.key = k,
                                   !.pc = "ttl_delete"])
       ELSE UNCHANGED kvOps
    /\ UNCHANGED <<store, alarm, now, alarmProc, lastPut>>
    /\ UNCHANGED distVars
    /\ UNCHANGED hubVars

TtlDelete(s) ==
    LET o == kvOps[s] IN
    /\ o.pc = "ttl_delete"
    /\ store' = [store EXCEPT ![o.key] = NoEntry]
    /\ lastPut' = LastPutAfterRemoval(o.key)
    /\ Return(s)
    /\ UNCHANGED <<alarm, now, alarmProc>>
    /\ UNCHANGED distVars
    /\ UNCHANGED hubVars

\* ---- alarm() / handleAlarm / scheduleNextAlarm ----
\* The platform clears the alarm slot when it invokes the handler, at or
\* after the alarm time, and runs one handler at a time.
AlarmFire ==
    /\ alarm # NoAlarm
    /\ now >= alarm
    /\ alarmProc.pc = "idle"
    /\ InFlight < MaxKvOps
    /\ alarm' = NoAlarm
    /\ alarmProc' = [IdleAlarm EXCEPT !.pc = "list"]
    /\ UNCHANGED <<store, now, kvOps, lastPut>>
    /\ UNCHANGED distVars
    /\ UNCHANGED hubVars

ExpiredKeys(snapshot, t) ==
    SelectSeq(KeyOrder, LAMBDA k: snapshot[k].present
                                   /\ get_isExpired(snapshot[k], t))

RECURSIVE nextExpirationFrom(_, _, _)
nextExpirationFrom(st, i, acc) ==
    IF i > Len(KeyOrder) THEN acc
    ELSE LET e == st[KeyOrder[i]] IN
         nextExpirationFrom(st, i + 1,
            IF e.present /\ e.expiresAt # NoExpiry
               /\ (acc = NoExpiry \/ e.expiresAt < acc)
            THEN e.expiresAt ELSE acc)

nextExpiration(st) == nextExpirationFrom(st, 1, NoExpiry)

\* storage.list resolved; the first storage.delete is issued, or else
\* scheduleNextAlarm's storage.list
AlarmList ==
    LET todo == ExpiredKeys(store, now) IN
    /\ alarmProc.pc = "list"
    /\ alarmProc' = [alarmProc EXCEPT !.todo = todo,
                       !.pc = IF todo = <<>> THEN "next_list" ELSE "sweep"]
    /\ UNCHANGED <<store, alarm, now, kvOps, lastPut>>
    /\ UNCHANGED distVars
    /\ UNCHANGED hubVars

AlarmSweep ==
    /\ alarmProc.pc = "sweep"
    /\ store' = [store EXCEPT ![Head(alarmProc.todo)] = NoEntry]
    /\ lastPut' = LastPutAfterRemoval(Head(alarmProc.todo))
    /\ alarmProc' = [alarmProc EXCEPT !.todo = Tail(@),
                       !.pc = IF Tail(alarmProc.todo) = <<>>
                              THEN "next_list" ELSE "sweep"]
    /\ UNCHANGED <<alarm, now, kvOps>>
    /\ UNCHANGED distVars
    /\ UNCHANGED hubVars

\* scheduleNextAlarm: storage.list resolved; setAlarm is issued
AlarmNextList ==
    LET t == nextExpiration(store) IN
    /\ alarmProc.pc = "next_list"
    /\ alarm' = IF t # NoExpiry THEN t ELSE alarm
    /\ alarmProc' = IdleAlarm
    /\ UNCHANGED <<store, now, kvOps, lastPut>>
    /\ UNCHANGED distVars
    /\ UNCHANGED hubVars

NextKV ==
    \/ Tick
    \/ \E s \in KvSlots, k \in KvKeys, v \in KvValues, ttl \in PutTtls :
          PutStart(s, k, v, ttl)
    \/ \E s \in KvSlots : PutStored(s)
    \/ \E s \in KvSlots : SchedGetAlarm(s)
    \/ \E s \in KvSlots, k \in KvKeys : GetStart(s, k)
    \/ \E s \in KvSlots : GetDelete(s)
    \/ \E s \in KvSlots : GetReturn(s)
    \/ \E s \in KvSlots, k \in KvKeys : Delete(s, k)
    \/ \E s \in KvSlots, k \in KvKeys, secs \in ExpireSeconds :
          ExpireStart(s, k, secs)
    \/ \E s \in KvSlots : ExpireRead(s)
    \/ \E s \in KvSlots : ExpireStored(s)
    \/ \E s \in KvSlots, k \in KvKeys : TtlStart(s, k)
    \/ \E s \in KvSlots : TtlDelete(s)
    \/ AlarmFire
    \/ AlarmList
    \/ AlarmSweep
    \/ AlarmNextList


(***************************************************************************)
(* Session registry: HubApi.addClient, removeClient, findClosest and the   *)
(* onRpcBroken callback.  A delivery (stub.broadcast) is an RPC to the     *)
(* worker; it settles in a later step with one of the Outcomes.            *)
(***************************************************************************)
Handles == 1..MaxHandles
\* the descriptor each session presents (ClientInfo.id is globally unique)
DescList == << [id |-> "A", vector |-> <<0, 0>>],
               [id |-> "B", vector |-> <<3, 4>>],
               [id |-> "C", vector |-> <<>>],
               [id |-> "D", vector |-> <<1>>] >>
Descriptor(h) == DescList[((h - 1) % Len(DescList)) + 1]
IdOf(h) == Descriptor(h).id
ClientIds == {IdOf(h) : h \in Handles}

\* "ok"; "dead": an error whose message matches one of the two dead-session
\* texts; "transient": any other error
Outcomes == {"ok", "dead", "transient"}

InSeq(x, seq) == \E i \in 1..Len(seq) : seq[i] = x
Without(seq, x) == SelectSeq(seq, LAMBDA y : y # x)
RangeOf(seq) == {seq[i] : i \in 1..Len(seq)}

\* d1 < d2 for finite distances sqrt(s1) + p1 and sqrt(s2) + p2
DistLess(d1, d2) ==
    LET s1 == d1.radicand
        s2 == d2.radicand
        D == d2.penalty - d1.penalty
    IN IF D >= 0
       THEN \/ s1 - s2 - D * D < 0
            \/ (s1 - s2 - D * D) * (s1 - s2 - D * D) < 4 * D * D * s2
       ELSE /\ s2 - s1 - D * D > 0
            /\ 4 * D * D * s1 < (s2 - s1 - D * D) * (s2 - s1 - D * D)

\* findClosest: the first registry entry at the least finite distance;
\* 0 when there is none
RECURSIVE findClosestFrom(_, _, _, _)
findClosestFrom(vec, seq, i, best) ==
    IF i > Len(seq) THEN best
    ELSE LET d == distance(vec, Descriptor(seq[i]).vector) IN
         findClosestFrom(vec, seq, i + 1,
            IF ~d.finite THEN best
            ELSE IF best = 0
                    \/ DistLess(d, distance(vec, Descriptor(best).vector))
                 THEN seq[i] ELSE best)

findClosest(vec, seq) == findClosestFrom(vec, seq, 1, 0)

NoJoin == [pc |-> "none", nearest |-> 0, wait |-> {}]

\* a broadcast call: idle, in its fan-out, or returned with its value;
\* `entered` is this.clients.length when the call was entered
NoBroadcast == [pc |-> "idle", calls |-> 0, wait |-> {}, entered |-> 0,
                returned |-> 0]

\* a message handed to the stub of session `to` (stub.broadcast(message)),
\* `about` being the session it concerns; with type "departure" the calls
\* handleBenchmarkDeparture(id) and handleMapReduceDeparture(id) for the
\* session `about`; with a "-timeout" type the timer callback of the
\* request `about`
Event(type, to, about) ==
    [type |-> type, to |-> to, about |-> about, clients |-> <<>>, match |-> 0]

\* a fan-out that leaves out the session the message is about
fanOut_othersOnly(H, type, about) ==
    [H EXCEPT !.events =
        @ \o [i \in 1..Len(Without(H.clients, about)) |->
                Event(type, Without(H.clients, about)[i], about)]]

\* broadcast's snapshot.map: one stub.broadcast(message) per entry
fanOut(H, type, about) ==
    [H EXCEPT !.events =
        @ \o [i \in 1..Len(H.clients) |-> Event(type, H.clients[i], about)]]

ReqIds == 1..MaxBench
\* durationMs of a report
Durations == {7, 11}
ReporterIds == ClientIds \cup {"unknown"}

NoBench == [status |-> "none", expected |-> {}, results |-> <<>>,
            snapshot |-> 0, waiting |-> {}]
NoSummary == [resolved |-> FALSE, participants |-> 0, responded |-> 0,
              pending |-> {}, results |-> <<>>, message |-> ""]
NoReport == [kind |-> "none", req |-> 0, repeated |-> FALSE]

MrIds == 1..MaxMapReduces
TaskIds == 1..MaxTasks
\* task.error and task.result when they are undefined
NoError == ""
NoResult == ""
MrResultValues == {"r"}
\* task.resultMetadata: undefined, or the metadata= token of a report
NoMetadata == ""
MrMetadataValues == {"m"}
\* the reports sent: a result with metadata, or an error without
ReportInputs ==
    {[result |-> v, failed |-> FALSE, metadata |-> m] :
        v \in MrResultValues, m \in MrMetadataValues}
    \cup {[result |-> NoResult, failed |-> TRUE, metadata |-> NoMetadata]}
NewTask == [assignedTo |-> "", attempts |-> 0, completed |-> FALSE,
            result |-> NoResult, error |-> NoError, metadata |-> NoMetadata]
NoMapReduce == [status |-> "none", tasks |-> <<>>, nextClientIndex |-> 0]
\* the reducers modelled, and summary.reducedValue for each of them (the
\* request's reducer, fixed at the start, selects one)
Reducers == {"collect", "count", "sum"}
NoReduced == [collect |-> <<>>, count |-> 0, sum |-> 0]
NoMrSummary == [resolved |-> FALSE, totalTasks |-> 0, completedTasks |-> 0,
                failedTasks |-> 0, pendingTasks |-> 0, message |-> "",
                reducedValue |-> NoReduced]

\* history: the addClient calls that returned normally
joins == Cardinality({h \in Handles : joinProc[h].pc = "ok"})

\* The part of the hub that removeClient and the coordinators' handlers
\* read and write.
Hub == [clients |-> clients, flying |-> flying, leaves |-> leaves,
        events |-> <<>>, bcast |-> bcast,
        bench |-> bench, benchSummary |-> benchSummary,
        mr |-> mr, mrProc |-> mrProc, mrTimers |-> mrTimers,
        mrSummary |-> mrSummary]

Commit(H) ==
    /\ clients' = H.clients
    /\ flying' = H.flying
    /\ leaves' = H.leaves
    /\ events' = H.events
    /\ bcast' = H.bcast
    /\ bench' = H.bench
    /\ benchSummary' = H.benchSummary
    /\ mr' = H.mr
    /\ mrProc' = H.mrProc
    /\ mrTimers' = H.mrTimers
    /\ mrSummary' = H.mrSummary

\* ---- resolveBenchmark(requestId, message?) ----
BenchmarkSummary_snapshotSize(p, message) ==
    [resolved |-> TRUE,
     participants |-> p.snapshot,
     responded |-> Len(p.results),
     pending |-> p.expected,
     results |-> p.results,
     message |-> IF message # "" THEN message
                 ELSE IF p.expected = {} THEN "Benchmark completed"
                 ELSE "Benchmark completed with missing responses"]

\* a summary that leaves out who is still expected
BenchmarkSummary_pendingOmitted(p, message) ==
    [resolved |-> TRUE,
     participants |-> Len(p.results) + Cardinality(p.expected),
     responded |-> Len(p.results),
     pending |-> {},
     results |-> p.results,
     message |-> IF message # "" THEN message
                 ELSE IF p.expected = {} THEN "Benchmark completed"
                 ELSE "Benchmark completed with missing responses"]

BenchmarkSummary(p, message) ==
    [resolved |-> TRUE,
     participants |-> Len(p.results) + Cardinality(p.expected),
     responded |-> Len(p.results),
     pending |-> p.expected,
     results |-> p.results,
     message |-> IF message # "" THEN message
                 ELSE IF p.expected = {} THEN "Benchmark completed"
                 ELSE "Benchmark completed with missing responses"]

\* a resolveBenchmark that returns without resolving
resolveBenchmark_noop(H, r, message) == H

\* a resolveBenchmark without the check that the request is still pending
resolveBenchmark_again(H, r, message) ==
    LET p == H.bench[r] IN
    [H EXCEPT !.bench[r] = [p EXCEPT !.status = "resolved",
                                     !.results = <<>>],
              !.benchSummary[r] = BenchmarkSummary(p, message)]

resolveBenchmark(H, r, message) ==
    LET p == H.bench[r] IN
    IF p.status # "pending" THEN H
    ELSE [H EXCEPT !.bench[r] = [p EXCEPT !.status = "resolved",
                                          !.results = <<>>],
                   !.benchSummary[r] = BenchmarkSummary(p, message)]

\* ---- handleBenchmarkDeparture(clientId) ----
RECURSIVE benchmarkDepartureFrom(_, _, _)
benchmarkDepartureFrom(H, id, r) ==
    IF r > MaxBench THEN H
    ELSE LET p == H.bench[r]
             H1 == [H EXCEPT !.bench[r].expected = @ \ {id}]
         IN benchmarkDepartureFrom(
                IF p.status = "pending" /\ id \in p.expected
                THEN IF H1.bench[r].expected = {}
                     THEN resolveBenchmark(H1, r, "")
                     ELSE H1
                ELSE H,
                id, r + 1)

\* removeClient without the notification of the benchmark coordinator
handleBenchmarkDeparture_skipped(H, id) == H

\* a departure that is only struck from the expected-sets
handleBenchmarkDeparture_deleteOnly(H, id) ==
    [H EXCEPT !.bench = [q \in ReqIds |->
        IF H.bench[q].status = "pending"
        THEN [H.bench[q] EXCEPT !.expected = @ \ {id}]
        ELSE H.bench[q]]]

handleBenchmarkDeparture(H, id) == benchmarkDepartureFrom(H, id, 1)

\* ---- resolveMapReduce(requestId, message?) ----
CountCompleted(tasks) ==
    Cardinality({i \in 1..Len(tasks) : tasks[i].completed})
CountUnfinished(tasks) ==
    Cardinality({i \in 1..Len(tasks) : ~tasks[i].completed})
CountErrors(tasks) ==
    Cardinality({i \in 1..Len(tasks) : tasks[i].error # NoError})

\* ---- reduceMapReduceResults(reducer, results) ----
\* A result is kept as the text of its token.  typeof value === "number",
\* or a string that parseFloat turns into a finite number: the tokens 1
\* and 2 here; any other value is dropped by `sum`.
NumericValues == {"1", "2"}
NumberOf(v) == IF v = "1" THEN 1 ELSE 2

RECURSIVE SumNumbers(_)
SumNumbers(numbers) ==
    IF numbers = <<>> THEN 0
    ELSE NumberOf(Head(numbers)) + SumNumbers(Tail(numbers))

reduceMapReduceResults(reducer, results) ==
    CASE reducer = "sum" ->
            SumNumbers(SelectSeq(results, LAMBDA v : v \in NumericValues))
      [] reducer = "count" -> Len(results)
      [] OTHER -> results

\* the results of every task that has completedAt, error or no error
successfulResults_withFailed(tasks) ==
    LET done == SelectSeq(tasks, LAMBDA t : t.completed)
    IN [i \in 1..Len(done) |-> done[i].result]

\* pending.tasks.filter(completedAt && !error).map(task => task.result)
successfulResults(tasks) ==
    LET done == SelectSeq(tasks, LAMBDA t : t.completed /\ t.error = NoError)
    IN [i \in 1..Len(done) |-> done[i].result]

\* a resolveMapReduce that returns without resolving
resolveMapReduce_noop(H, r, message) == H

resolveMapReduce(H, r, message) ==
    LET p == H.mr[r]
        unfinished == CountUnfinished(p.tasks)
        closed == [i \in 1..Len(p.tasks) |->
                     IF p.tasks[i].completed THEN p.tasks[i]
                     ELSE [p.tasks[i] EXCEPT
                             !.completed = TRUE,
                             !.error = IF @ # NoError THEN @
                                       ELSE "No response received"]]
        failedTasks == CountErrors(closed)
    IN IF p.status # "pending" THEN H
       ELSE [H EXCEPT
               !.mr[r] = [p EXCEPT !.status = "resolved", !.tasks = closed],
               !.mrSummary[r] =
                  [resolved |-> TRUE,
                   totalTasks |-> Len(closed),
                   completedTasks |-> CountCompleted(closed),
                   failedTasks |-> failedTasks,
                   pendingTasks |-> unfinished,
                   reducedValue |->
                      [collect |-> reduceMapReduceResults(
                                      "collect", successfulResults(closed)),
                       count |-> reduceMapReduceResults(
                                      "count", successfulResults(closed)),
                       sum |-> reduceMapReduceResults(
                                      "sum", successfulResults(closed))],
                   message |->
                      IF message # "" THEN message
                      ELSE IF failedTasks = 0 /\ unfinished = 0
                           THEN "MapReduce completed successfully"
                      ELSE IF failedTasks > 0
                           THEN "MapReduce completed with errors"
                      ELSE "MapReduce completed with pending tasks"]]

\* ---- checkMapReduceCompletion(requestId) ----
checkMapReduceCompletion(H, r) ==
    IF /\ H.mr[r].status = "pending"
       /\ \A i \in 1..Len(H.mr[r].tasks) : H.mr[r].tasks[i].completed
    THEN resolveMapReduce(H, r, "")
    ELSE H

\* ---- handleMapReduceDeparture(clientId) ----
\* removeClient without the notification of the map-reduce coordinator
handleMapReduceDeparture_skipped(H, id) == H

handleMapReduceDeparture(H, id) ==
    LET hit(r, i) == /\ H.mr[r].status = "pending"
                     /\ ~H.mr[r].tasks[i].completed
                     /\ H.mr[r].tasks[i].assignedTo = id
    IN [H EXCEPT
          !.mr = [r \in MrIds |->
                    [H.mr[r] EXCEPT !.tasks =
                       [i \in 1..Len(H.mr[r].tasks) |->
                          IF hit(r, i)
                          THEN [H.mr[r].tasks[i] EXCEPT !.assignedTo = ""]
                          ELSE H.mr[r].tasks[i]]]],
          !.mrTimers = @ \cup {[req |-> x[1], task |-> x[2]] :
                                 x \in {y \in MrIds \X TaskIds :
                                          /\ y[2] <= Len(H.mr[y[1]].tasks)
                                          /\ hit(y[1], y[2])}}]

\* ---- removeClient(stub) ----
\* `leave` tells the history whether the caller is a disconnect or a
\* dead-session eviction (TRUE), or else addClient undoing its own
\* registration or a dispatch dropping a client on another error (FALSE).
\* a removeClient without the index check: it announces the departure
\* whether or not the record is still there
removeClient_unguarded(H, h, leave) ==
    LET rest == Without(H.clients, h)
        H1 == [H EXCEPT !.clients = rest,
                        !.flying = (@ \cup RangeOf(rest)) \ {h}]
        H2 == [fanOut(H1, "client-left", h) EXCEPT
                  !.events = Append(@, Event("departure", 0, h))]
    IN handleMapReduceDeparture(
           handleBenchmarkDeparture(H2, IdOf(h)), IdOf(h))

\* a removeClient that does not find the record
removeClient_notFound(H, h, leave) == H

removeClient(H, h, leave) ==
    IF ~InSeq(h, H.clients) THEN H
    ELSE LET rest == Without(H.clients, h)
             H1 == [H EXCEPT !.clients = rest,
                             !.flying = (@ \cup RangeOf(rest)) \ {h},
                             !.leaves = IF leave THEN @ + 1 ELSE @]
         H2 == [fanOut(H1, "client-left", h) EXCEPT
                   !.events = Append(@, Event("departure", 0, h))]
         IN handleMapReduceDeparture(
                handleBenchmarkDeparture(H2, IdOf(h)), IdOf(h))

\* ---- addClient(stub, rawInfo) ----
\* a descriptor that fails isClientInfo: TypeError, nothing is registered
JoinMalformed(h) ==
    /\ joinProc[h].pc = "none"
    /\ \A g \in Handles : g < h => joinProc[g].pc # "none"
    /\ reportReply' = NoReport
    /\ events' = <<>>
    /\ UNCHANGED <<clients, joinProc, flying, leaves, bcast>>
    /\ UNCHANGED <<bench, benchSummary>>
    /\ UNCHANGED mrVars
    /\ UNCHANGED kvVars
    /\ UNCHANGED distVars

\* validation, findClosest, onRpcBroken, push; client-list is issued
JoinStart(h) ==
    /\ joinProc[h].pc = "none"
    /\ \A g \in Handles : g < h => joinProc[g].pc # "none"
    /\ joinProc' = [joinProc EXCEPT ![h] =
          [NoJoin EXCEPT !.pc = "list",
                         !.nearest = findClosest(Descriptor(h).vector, clients)]]
    /\ Commit([Hub EXCEPT
                 !.clients = Append(@, h),
                 !.events = <<[Event("client-list", h, h) EXCEPT
                                 !.clients = Append(clients, h),
                                 !.match = findClosest(Descriptor(h).vector,
                                                       clients)]>>])
    /\ reportReply' = NoReport
    /\ UNCHANGED kvVars
    /\ UNCHANGED distVars

\* this.broadcast(client-joined) is entered: 0 recipients returns at once
JoinBroadcast(h, H) ==
    IF H.clients = <<>>
    THEN /\ joinProc' = [joinProc EXCEPT ![h] = [NoJoin EXCEPT !.pc = "ok"]]
    ELSE /\ joinProc' = [joinProc EXCEPT ![h] =
               [NoJoin EXCEPT !.pc = "joined", !.wait = RangeOf(H.clients)]]

\* client-list settled
JoinListDone(h, ok) ==
    /\ joinProc[h].pc = "list"
    /\ IF ok
       THEN IF joinProc[h].nearest # 0
            THEN /\ joinProc' = [joinProc EXCEPT ![h].pc = "match"]
                 /\ Commit([Hub EXCEPT !.events =
                              IF InSeq(joinProc[h].nearest, clients)
                              THEN <<Event("client-match",
                                           joinProc[h].nearest, h)>>
                              ELSE <<>>])
            ELSE /\ JoinBroadcast(h, Hub)
                 /\ Commit(fanOut(Hub, "client-joined", h))
       ELSE /\ Commit(removeClient(Hub, h, FALSE))
            /\ joinProc' = [joinProc EXCEPT ![h] = [NoJoin EXCEPT !.pc = "failed"]]
    /\ reportReply' = NoReport
    /\ UNCHANGED kvVars
    /\ UNCHANGED distVars

\* client-match settled: a failure is only logged
JoinMatchDone(h) ==
    /\ joinProc[h].pc = "match"
    /\ JoinBroadcast(h, Hub)
    /\ Commit(fanOut(Hub, "client-joined", h))
    /\ reportReply' = NoReport
    /\ UNCHANGED kvVars
    /\ UNCHANGED distVars

\* ---- broadcast(message): one delivery of the client-joined fan-out ----
\* a broadcast that evicts on any delivery error
broadcast_evictsOnAnyError(outcome) == outcome # "ok"

broadcast_evictsOn(outcome) == outcome = "dead"

JoinedDelivery(h, t, outcome) ==
    /\ joinProc[h].pc = "joined"
    /\ t \in joinProc[h].wait
    /\ Commit(IF broadcast_evictsOn(outcome)
              THEN removeClient(Hub, t, TRUE) ELSE Hub)
    /\ IF joinProc[h].wait = {t}
       THEN /\ joinProc' = [joinProc EXCEPT ![h] = [NoJoin EXCEPT !.pc = "ok"]]
       ELSE /\ joinProc' = [joinProc EXCEPT ![h].wait = @ \ {t}]
    /\ reportReply' = NoReport
    /\ UNCHANGED kvVars
    /\ UNCHANGED distVars

\* the client-left deliveries to t settled (removeClient does not await
\* them); `flying` holds the registered clients that have one in flight
LeftDelivery(t, outcome) ==
    /\ t \in flying
    /\ Commit(LET H == [Hub EXCEPT !.flying = @ \ {t}] IN
              IF broadcast_evictsOn(outcome)
              THEN removeClient(H, t, TRUE) ELSE H)
    /\ reportReply' = NoReport
    /\ UNCHANGED joinProc
    /\ UNCHANGED kvVars
    /\ UNCHANGED distVars

\* the session of a registered client breaks or is closed by the client:
\* the onRpcBroken callback runs removeClient(dup)
RpcBroken(h) ==
    /\ InSeq(h, clients)
    /\ Commit(removeClient(Hub, h, TRUE))
    /\ reportReply' = NoReport
    /\ UNCHANGED joinProc
    /\ UNCHANGED kvVars
    /\ UNCHANGED distVars

\* ---- broadcast(message), called by a session over RPC ----
\* entry: 0 for an empty registry, else the snapshot and its fan-out
BroadcastStart ==
    /\ bcast.pc = "idle"
    /\ bcast.calls < MaxBroadcasts
    /\ Commit(IF clients = <<>>
              THEN [Hub EXCEPT !.bcast = [@ EXCEPT !.pc = "returned",
                                                   !.calls = @ + 1]]
              ELSE [fanOut(Hub, "user-message", 0) EXCEPT
                       !.bcast = [@ EXCEPT !.pc = "fanout",
                                           !.calls = @ + 1,
                                           !.wait = RangeOf(clients),
                                           !.entered = Len(clients)]])
    /\ reportReply' = NoReport
    /\ UNCHANGED joinProc
    /\ UNCHANGED kvVars
    /\ UNCHANGED distVars

\* one delivery of the fan-out settled; after the last one the call
\* returns this.clients.length
BroadcastDelivery(t, outcome) ==
    /\ bcast.pc = "fanout"
    /\ t \in bcast.wait
    /\ LET H1 == IF broadcast_evictsOn(outcome)
                 THEN removeClient(Hub, t, TRUE) ELSE Hub
       IN Commit([H1 EXCEPT !.bcast =
                    IF bcast.wait = {t}
                    THEN [@ EXCEPT !.pc = "returned", !.wait = {},
                                   !.returned = Len(H1.clients)]
                    ELSE [@ EXCEPT !.wait = @ \ {t}]])
    /\ reportReply' = NoReport
    /\ UNCHANGED joinProc
    /\ UNCHANGED kvVars
    /\ UNCHANGED distVars

(***************************************************************************)
(* Benchmark coordinator: runCommand("benchmark ...").                     *)
(***************************************************************************)
\* benchmark [iterations] [key=value...]: the snapshot, the pending entry
\* with its timer, and the fan-out of benchmark-request
BenchmarkStart(r) ==
    /\ bench[r].status = "none"
    /\ \A q \in ReqIds : q < r => bench[q].status # "none"
    /\ Commit(IF clients = <<>> THEN Hub
              ELSE [fanOut(Hub, "benchmark-request", 0) EXCEPT !.bench[r] =
                      [status |-> "pending",
                       expected |-> {IdOf(h) : h \in RangeOf(clients)},
                       results |-> <<>>,
                       snapshot |-> Len(clients),
                       waiting |-> RangeOf(clients)]])
    /\ reportReply' = NoReport
    /\ UNCHANGED joinProc
    /\ UNCHANGED kvVars
    /\ UNCHANGED distVars

\* one benchmark-request delivery settled; after the last one, an empty
\* expected-set resolves the request
BenchmarkDelivery(r, t, outcome) ==
    /\ t \in bench[r].waiting
    /\ LET H0 == [Hub EXCEPT !.bench[r].waiting = @ \ {t}]
           H1 == IF outcome = "ok" THEN H0
                 ELSE removeClient(
                        [H0 EXCEPT !.bench[r].expected = @ \ {IdOf(t)}],
                        t, outcome = "dead")
       IN Commit(IF H1.bench[r].waiting = {} /\ H1.bench[r].expected = {}
                 THEN resolveBenchmark(H1, r,
                        "Benchmark request could not reach any clients")
                 ELSE H1)
    /\ reportReply' = NoReport
    /\ UNCHANGED joinProc
    /\ UNCHANGED kvVars
    /\ UNCHANGED distVars

\* ---- benchmark report <requestId> <durationMs> ----
report_alwaysNew(results, c) == TRUE
report_isNew(results, c) == \A i \in 1..Len(results) : results[i].clientId # c

report_keepExpected(expected, c) == expected
report_dropExpected(expected, c) == expected \ {c}

BenchmarkReport(r, c, d) ==
    /\ IF bench[r].status # "pending"
       THEN /\ reportReply' = [kind |-> "unknown", req |-> r, repeated |-> FALSE]
            /\ Commit(Hub)
       ELSE LET p == bench[r]
                fresh == report_isNew(p.results, c)
                H1 == [Hub EXCEPT !.bench[r] =
                         [p EXCEPT !.results =
                                      IF fresh
                                      THEN Append(@, [clientId |-> c,
                                                      durationMs |-> d])
                                      ELSE @,
                                   !.expected = report_dropExpected(@, c)]]
            IN /\ Commit(IF H1.bench[r].expected = {}
                         THEN resolveBenchmark(H1, r, "")
                         ELSE H1)
               /\ reportReply' = [kind |-> "accepted", req |-> r,
                                  repeated |-> ~fresh]
    /\ UNCHANGED joinProc
    /\ UNCHANGED kvVars
    /\ UNCHANGED distVars

\* the request's timer fires (resolveBenchmark clears it)
BenchmarkTimeout(r) ==
    /\ bench[r].status = "pending"
    /\ Commit(resolveBenchmark(
                [Hub EXCEPT !.events = <<Event("benchmark-timeout", 0, r)>>],
                r, "Benchmark timed out before all nodes replied"))
    /\ reportReply' = NoReport
    /\ UNCHANGED joinProc
    /\ UNCHANGED kvVars
    /\ UNCHANGED distVars

(***************************************************************************)
(* Map-reduce coordinator: runCommand("mapreduce ...").                    *)
(***************************************************************************)
\* who called dispatchMapReduceTask: startMapReduce's loop, or the timer
\* callback of handleMapReduceDeparture
DispatchKinds == {"start", "reassign"}

\* the candidate a dispatch is at: participants[(startIndex + offset) % n]
\* a dispatch that starts at the head of the registry whatever the cursor
Candidate_fromHead(K) ==
    K.participants[(K.offset % Len(K.participants)) + 1]

Candidate(K) ==
    K.participants[((K.startIndex + K.offset) % Len(K.participants)) + 1]

\* a caller that ignores the false that dispatchMapReduceTask returned
dispatchFailed_ignored(H, r, i, kind) == H

\* dispatchMapReduceTask returned false: what its caller does with it
dispatchFailed(H, r, i, kind) ==
    IF kind = "start"
    THEN [H EXCEPT !.mr[r].tasks[i] =
            [@ EXCEPT !.error = "Failed to dispatch task to any client",
                      !.completed = TRUE]]
    ELSE checkMapReduceCompletion(
            [H EXCEPT !.mr[r].tasks[i] =
               [@ EXCEPT !.error = IF @ # NoError THEN @
                                   ELSE "Failed to reassign after client departure",
                         !.completed = TRUE]],
            r)

\* a message that carries the attempts made before this dispatch
messageAttempts_before(task) == task.attempts

\* the attempts field of the mapreduce-task message: task.attempts + 1
messageAttempts(task) == task.attempts + 1

\* dispatchMapReduceTask from candidate K.offset on, and, for the start
\* loop, the tasks after it, up to the next delivery that has to be waited
\* for.  A call on the stub of a removed client (disposed) throws.
RECURSIVE dispatchLoop(_, _)
RECURSIVE startLoop(_, _, _)
dispatchLoop(H, K) ==
    IF K.offset >= Len(K.participants)
    THEN IF K.kind = "start"
         THEN startLoop(dispatchFailed(H, K.req, K.task, K.kind),
                        K.req, K.task + 1)
         ELSE dispatchFailed(H, K.req, K.task, K.kind)
    ELSE IF InSeq(Candidate(K), H.clients)
         THEN [H EXCEPT !.mrProc = @ \cup
                            {[K EXCEPT !.attempts =
                                messageAttempts(H.mr[K.req].tasks[K.task])]},
                        !.events = Append(@, Event("mapreduce-task",
                                                   Candidate(K), 0))]
         ELSE dispatchLoop(H, [K EXCEPT !.offset = @ + 1])

\* dispatchMapReduceTask(pending, task): snapshot and startIndex
dispatchMapReduceTask(H, r, i, kind) ==
    dispatchLoop(H, [req |-> r, task |-> i, kind |-> kind,
                     participants |-> H.clients,
                     startIndex |-> IF H.clients = <<>> THEN 0
                                    ELSE H.mr[r].nextClientIndex % Len(H.clients),
                     offset |-> 0, attempts |-> 0])

\* startMapReduce's loop over pending.tasks, from task i on
startLoop(H, r, i) ==
    IF i > Len(H.mr[r].tasks)
    THEN checkMapReduceCompletion(H, r)
    ELSE dispatchMapReduceTask(H, r, i, "start")

IndexOf(seq, x) == CHOOSE i \in 1..Len(seq) : seq[i] = x

\* mapreduce start tasks=<n tasks>
MapReduceStart(r, n) ==
    /\ mr[r].status = "none"
    /\ \A q \in MrIds : q < r => mr[q].status # "none"
    /\ Commit(IF clients = <<>> THEN Hub
              ELSE startLoop(
                     [Hub EXCEPT !.mr[r] = [status |-> "pending",
                                            tasks |-> [i \in 1..n |-> NewTask],
                                            nextClientIndex |-> 0]],
                     r, 1))
    /\ reportReply' = NoReport
    /\ UNCHANGED joinProc
    /\ UNCHANGED kvVars
    /\ UNCHANGED distVars

\* the mapreduce-task delivery of task i of request r settled
MapReduceDelivery(r, i, kind, outcome) ==
    \E K \in mrProc :
    /\ K.req = r
    /\ K.task = i
    /\ K.kind = kind
    /\ LET H0 == [Hub EXCEPT !.mrProc = @ \ {K}]
           c == Candidate(K)
           H1 == [H0 EXCEPT
                    !.mr[K.req].tasks[K.task] =
                        [@ EXCEPT !.assignedTo = IdOf(c),
                                  !.attempts = @ + 1],
                    !.mr[K.req].nextClientIndex =
                        IF InSeq(c, H0.clients)
                        THEN IndexOf(H0.clients, c) % Len(H0.clients)
                        ELSE 0]
       IN Commit(IF outcome = "ok"
                 THEN IF K.kind = "start"
                      THEN startLoop(H1, K.req, K.task + 1)
                      ELSE H1
                 ELSE dispatchLoop(removeClient(H0, c, outcome = "dead"),
                                   [K EXCEPT !.offset = @ + 1]))
    /\ reportReply' = NoReport
    /\ UNCHANGED joinProc
    /\ UNCHANGED kvVars
    /\ UNCHANGED distVars

\* the setTimeout(0) callback of handleMapReduceDeparture for task i of
\* request r
MapReduceReassign(r, i) ==
    /\ [req |-> r, task |-> i] \in mrTimers
    /\ LET H0 == [Hub EXCEPT !.mrTimers = @ \ {[req |-> r, task |-> i]}]
       IN Commit(IF H0.mr[r].status # "pending" THEN H0
                 ELSE dispatchMapReduceTask(H0, r, i, "reassign"))
    /\ reportReply' = NoReport
    /\ UNCHANGED joinProc
    /\ UNCHANGED kvVars
    /\ UNCHANGED distVars

\* what handleMapReduceReport returns: accepted, or one of the three
\* refusals (accepted: false with an error text)
mapReduceReportReply(H, r, i) ==
    [kind |-> IF H.mr[r].status # "pending" THEN "unknown-request"
              ELSE IF i > Len(H.mr[r].tasks) THEN "unknown-task"
              ELSE IF H.mr[r].tasks[i].completed THEN "already-reported"
              ELSE "mr-accepted",
     req |-> r,
     repeated |-> FALSE]

\* a report that is recorded whatever the task's completedAt
report_overwrites(task) == TRUE
report_isFirst(task) == ~task.completed

\* mapreduce report <requestId> <taskId> <result> | error=<message>
\*                  [metadata=<json>]
MapReduceReport(r, i, result, failed, metadata) ==
    /\ Commit(IF \/ mr[r].status # "pending"
                 \/ i > Len(mr[r].tasks)
              THEN Hub
              ELSE IF ~report_isFirst(mr[r].tasks[i])
              THEN Hub
              ELSE checkMapReduceCompletion(
                     [Hub EXCEPT !.mr[r].tasks[i] =
                        [@ EXCEPT !.completed = TRUE,
                                  !.error = IF failed THEN "reported" ELSE @,
                                  !.result = IF failed THEN NoResult
                                             ELSE result,
                                  !.metadata = IF metadata # NoMetadata
                                               THEN metadata ELSE @]],
                     r))
    /\ reportReply' = mapReduceReportReply(Hub, r, i)
    /\ UNCHANGED joinProc
    /\ UNCHANGED kvVars
    /\ UNCHANGED distVars

\* mapreduce status <requestId>: what handleMapReduceStatus returns
mapReduceStatus(H, r) ==
    IF H.mr[r].status # "pending"
    THEN [active |-> FALSE, totalTasks |-> 0, completedTasks |-> 0]
    ELSE [active |-> TRUE,
          totalTasks |-> Len(H.mr[r].tasks),
          completedTasks |-> CountCompleted(H.mr[r].tasks)]

\* mapreduce cancel <requestId>
MapReduceCancel(r) ==
    /\ Commit(resolveMapReduce(Hub, r, "MapReduce cancelled"))
    /\ reportReply' = [kind |-> IF mr[r].status = "pending"
                                THEN "cancelled" ELSE "not-cancelled",
                       req |-> r, repeated |-> FALSE]
    /\ UNCHANGED joinProc
    /\ UNCHANGED kvVars
    /\ UNCHANGED distVars

\* the request's timer fires (resolveMapReduce clears it)
MapReduceTimeout(r) ==
    /\ mr[r].status = "pending"
    /\ Commit(resolveMapReduce(
                [Hub EXCEPT !.events = <<Event("mapreduce-timeout", 0, r)>>],
                r, "MapReduce timed out before all tasks completed"))
    /\ reportReply' = NoReport
    /\ UNCHANGED joinProc
    /\ UNCHANGED kvVars
    /\ UNCHANGED distVars

NextRegistry ==
    \/ \E h \in Handles : JoinMalformed(h)
    \/ \E h \in Handles : JoinStart(h)
    \/ \E h \in Handles, ok \in BOOLEAN : JoinListDone(h, ok)
    \/ \E h \in Handles : JoinMatchDone(h)
    \/ \E h \in Handles, t \in Handles, o \in Outcomes : JoinedDelivery(h, t, o)
    \/ \E t \in Handles, o \in Outcomes : LeftDelivery(t, o)
    \/ \E h \in Handles : RpcBroken(h)

NextBroadcast ==
    \/ NextRegistry
    \/ BroadcastStart
    \/ \E t \in Handles, o \in Outcomes : BroadcastDelivery(t, o)

NextBench ==
    \/ NextRegistry
    \/ \E r \in ReqIds : BenchmarkStart(r)
    \/ \E r \in ReqIds, t \in Handles, o \in Outcomes : BenchmarkDelivery(r, t, o)
    \/ \E r \in ReqIds, c \in ReporterIds, d \in Durations :
          BenchmarkReport(r, c, d)
    \/ \E r \in ReqIds : BenchmarkTimeout(r)

NextMapReduce ==
    \/ NextRegistry
    \/ \E r \in MrIds, n \in TaskIds : MapReduceStart(r, n)
    \/ \E r \in MrIds, i \in TaskIds, kind \in DispatchKinds, o \in Outcomes :
          MapReduceDelivery(r, i, kind, o)
    \/ \E r \in MrIds, i \in TaskIds : MapReduceReassign(r, i)
    \/ \E r \in MrIds, i \in TaskIds, rep \in ReportInputs :
          MapReduceReport(r, i, rep.result, rep.failed, rep.metadata)
    \/ \E r \in MrIds : MapReduceCancel(r)
    \/ \E r \in MrIds : MapReduceTimeout(r)

vars == <<store, alarm, now, kvOps, alarmProc, lastPut,
          vecA, vecB, distOut,
          clients, joinProc, flying, leaves, events, bcast,
          bench, benchSummary, reportReply,
          mr, mrProc, mrTimers, mrSummary>>

\* The hub after construction: empty storage, no alarm, no client, no
\* pending request.
Init ==
    /\ store = [k \in KvKeys |-> NoEntry]
    /\ alarm = NoAlarm
    /\ now = 0
    /\ kvOps = [s \in KvSlots |-> IdleOp]
    /\ alarmProc = IdleAlarm
    /\ lastPut = [k \in KvKeys |-> ""]
    /\ vecA = <<>>
    /\ vecB = <<>>
    /\ distOut = NoDist
    /\ clients = <<>>
    /\ joinProc = [h \in Handles |-> NoJoin]
    /\ flying = {}
    /\ leaves = 0
    /\ events = <<>>
    /\ bcast = NoBroadcast
    /\ bench = [r \in ReqIds |-> NoBench]
    /\ benchSummary = [r \in ReqIds |-> NoSummary]
    /\ reportReply = NoReport
    /\ mr = [r \in MrIds |-> NoMapReduce]
    /\ mrProc = {}
    /\ mrTimers = {}
    /\ mrSummary = [r \in MrIds |-> NoMrSummary]

\* The same hub, about to compute distance on a pair of vectors.
InitDist ==
    /\ store = [k \in KvKeys |-> NoEntry]
    /\ alarm = NoAlarm
    /\ now = 0
    /\ kvOps = [s \in KvSlots |-> IdleOp]
    /\ alarmProc = IdleAlarm
    /\ lastPut = [k \in KvKeys |-> ""]
    /\ vecA \in Vectors
    /\ vecB \in Vectors
    /\ distOut = NoDist
    /\ clients = <<>>
    /\ joinProc = [h \in Handles |-> NoJoin]
    /\ flying = {}
    /\ leaves = 0
    /\ events = <<>>
    /\ bcast = NoBroadcast
    /\ bench = [r \in ReqIds |-> NoBench]
    /\ benchSummary = [r \in ReqIds |-> NoSummary]
    /\ reportReply = NoReport
    /\ mr = [r \in MrIds |-> NoMapReduce]
    /\ mrProc = {}
    /\ mrTimers = {}
    /\ mrSummary = [r \in MrIds |-> NoMrSummary]

SpecKV == Init /\ [][NextKV]_vars
SpecDist == InitDist /\ [][ComputeDistance]_vars
SpecReg == Init /\ [][NextRegistry]_vars
SpecBroadcast == Init /\ [][NextBroadcast]_vars
SpecBench == Init /\ [][NextBench]_vars
SpecMR == Init /\ [][NextMapReduce]_vars

\* The hub once every session has joined: all addClient calls returned,
\* no delivery in flight, no request yet.
InitEstablished ==
    /\ store = [k \in KvKeys |-> NoEntry]
    /\ alarm = NoAlarm
    /\ now = 0
    /\ kvOps = [s \in KvSlots |-> IdleOp]
    /\ alarmProc = IdleAlarm
    /\ lastPut = [k \in KvKeys |-> ""]
    /\ vecA = <<>>
    /\ vecB = <<>>
    /\ distOut = NoDist
    /\ clients = [h \in Handles |-> h]
    /\ joinProc = [h \in Handles |-> [NoJoin EXCEPT !.pc = "ok"]]
    /\ flying = {}
    /\ leaves = 0
    /\ events = <<>>
    /\ bcast = NoBroadcast
    /\ bench = [r \in ReqIds |-> NoBench]
    /\ benchSummary = [r \in ReqIds |-> NoSummary]
    /\ reportReply = NoReport
    /\ mr = [r \in MrIds |-> NoMapReduce]
    /\ mrProc = {}
    /\ mrTimers = {}
    /\ mrSummary = [r \in MrIds |-> NoMrSummary]

\* the sessions break or are evicted, and no new one joins
NextDepartures ==
    \/ \E t \in Handles, o \in Outcomes : LeftDelivery(t, o)
    \/ \E h \in Handles : RpcBroken(h)

NextBenchEstablished ==
    \/ NextDepartures
    \/ \E r \in ReqIds : BenchmarkStart(r)
    \/ \E r \in ReqIds, t \in Handles, o \in Outcomes : BenchmarkDelivery(r, t, o)
    \/ \E r \in ReqIds, c \in ReporterIds, d \in Durations :
          BenchmarkReport(r, c, d)
    \/ \E r \in ReqIds : BenchmarkTimeout(r)

NextMapReduceEstablished ==
    \/ NextDepartures
    \/ \E r \in MrIds, n \in TaskIds : MapReduceStart(r, n)
    \/ \E r \in MrIds, i \in TaskIds, kind \in DispatchKinds, o \in Outcomes :
          MapReduceDelivery(r, i, kind, o)
    \/ \E r \in MrIds, i \in TaskIds : MapReduceReassign(r, i)
    \/ \E r \in MrIds, i \in TaskIds, rep \in ReportInputs :
          MapReduceReport(r, i, rep.result, rep.failed, rep.metadata)
    \/ \E r \in MrIds : MapReduceCancel(r)
    \/ \E r \in MrIds : MapReduceTimeout(r)

\* The timers of the coordinators are run by the runtime: a timer that
\* stays armed fires.  Nothing else is assumed to happen: no delivery has
\* to settle, no client has to report.
SpecBenchLive ==
    /\ InitEstablished
    /\ [][NextBenchEstablished]_vars
    /\ \A r \in ReqIds : WF_vars(BenchmarkTimeout(r))
\* the map-reduce coordinator over the established registry
SpecMREstablished == InitEstablished /\ [][NextMapReduceEstablished]_vars

\* The reports a worker sends for the reducers: a number, a text that is
\* no number, or an error.
ReduceResultValues == {"1", "2", "x"}
ReduceInputs ==
    {[result |-> v, failed |-> FALSE, metadata |-> NoMetadata] :
        v \in ReduceResultValues}
    \cup {[result |-> NoResult, failed |-> TRUE, metadata |-> NoMetadata]}

NextReduce ==
    \/ NextDepartures
    \/ \E r \in MrIds, n \in TaskIds : MapReduceStart(r, n)
    \/ \E r \in MrIds, i \in TaskIds, kind \in DispatchKinds, o \in Outcomes :
          MapReduceDelivery(r, i, kind, o)
    \/ \E r \in MrIds, i \in TaskIds : MapReduceReassign(r, i)
    \/ \E r \in MrIds, i \in TaskIds, rep \in ReduceInputs :
          MapReduceReport(r, i, rep.result, rep.failed, rep.metadata)
    \/ \E r \in MrIds : MapReduceCancel(r)
    \/ \E r \in MrIds : MapReduceTimeout(r)

\* the map-reduce coordinator over the established registry, with reports
\* that tell the reducers apart
SpecReduce == InitEstablished /\ [][NextReduce]_vars

\* the requests started so far, benchmark and map-reduce
RequestsStarted ==
    Cardinality({r \in ReqIds : bench[r].status # "none"})
       + Cardinality({r \in MrIds : mr[r].status # "none"})

\* the commands that start a request, MaxRequests times in all
StartBenchmark(r) ==
    /\ RequestsStarted < MaxRequests
    /\ BenchmarkStart(r)
StartMapReduce(r, n) ==
    /\ RequestsStarted < MaxRequests
    /\ MapReduceStart(r, n)

\* both coordinators over the established registry
NextCoordinators ==
    \/ NextDepartures
    \/ \E r \in ReqIds : StartBenchmark(r)
    \/ \E r \in ReqIds, t \in Handles, o \in Outcomes : BenchmarkDelivery(r, t, o)
    \/ \E r \in ReqIds, c \in ReporterIds, d \in Durations :
          BenchmarkReport(r, c, d)
    \/ \E r \in ReqIds : BenchmarkTimeout(r)
    \/ \E r \in MrIds, n \in TaskIds : StartMapReduce(r, n)
    \/ \E r \in MrIds, i \in TaskIds, kind \in DispatchKinds, o \in Outcomes :
          MapReduceDelivery(r, i, kind, o)
    \/ \E r \in MrIds, i \in TaskIds : MapReduceReassign(r, i)
    \/ \E r \in MrIds, i \in TaskIds, rep \in ReportInputs :
          MapReduceReport(r, i, rep.result, rep.failed, rep.metadata)
    \/ \E r \in MrIds : MapReduceCancel(r)
    \/ \E r \in MrIds : MapReduceTimeout(r)

SpecCoordinators == InitEstablished /\ [][NextCoordinators]_vars

SpecMRLive ==
    /\ InitEstablished
    /\ [][NextMapReduceEstablished]_vars
    /\ \A r \in MrIds : WF_vars(MapReduceTimeout(r))

(***************************************************************************)
(* Claims on the KV store.                                                 *)
(***************************************************************************)
KvQuiescent ==
    /\ \A s \in KvSlots : kvOps[s].pc = "idle"
    /\ alarmProc.pc = "idle"

GetReplies ==
    {kvOps[s].reply : s \in {r \in KvSlots : kvOps[r].pc = "get_return"}}

\* C5: a get issued before the expiry of the entry it reads returns the
\* value of the last successful put of its key, when no later put or
\* delete of the key succeeded.
C5_GetReturnsLastPut ==
    \A r \in GetReplies :
        r.last # "" => \/ r.status = "value" /\ r.value = r.last
                       \/ r.due

\* C6: a get that reads an entry with expiresAt <= now (boundary included)
\* returns null with expired = true.
C6_GetExpiresAtBoundary ==
    \A r \in GetReplies : r.due => (r.status = "null" /\ r.expired)

\* C7: once every operation has completed, the alarm equals the minimum
\* expiresAt over the stored entries that carry an expiry.
C7_AlarmEqualsMinExpiry ==
    KvQuiescent => alarm = nextExpiration(store)

(***************************************************************************)
(* Claims on distance.                                                     *)
(***************************************************************************)
\* C9 (as stated): distance is symmetric and zero on the diagonal for all
\* vectors, the empty one included.
C9_SymmetricZeroDiagonalAll ==
    distOut.done => (distOut.ab = distOut.ba /\ distOut.aa = Zero)

\* C9 (amended): distance(a,b) = distance(b,a) for all vectors a and b;
\* distance(a,a) = 0 for every non-empty a, and +Infinity for the empty a.
C9_SymmetricZeroDiagonalNonEmpty ==
    distOut.done =>
        /\ distOut.ab = distOut.ba
        /\ (Len(vecA) > 0 => distOut.aa = Zero)
        /\ (Len(vecA) = 0 => distOut.aa = Infinity)

C9_Witness ==
    /\ distOut.done
    /\ Len(vecA) > 0
    /\ Len(vecB) > Len(vecA)
    /\ distOut.ab.finite
    /\ distOut.ab.radicand > 0
    /\ distOut.ab.penalty > 0


(***************************************************************************)
(* Properties of the registry and the coordinators.                        *)
(***************************************************************************)
ReportedIds(results) == {results[i].clientId : i \in 1..Len(results)}

\* C1: for every resolved benchmark, summary.participants equals the
\* number of clients in the registry snapshot taken when the benchmark
\* was dispatched, whatever departures and reports followed.
C1_ParticipantsIsSnapshotSize ==
    \A r \in ReqIds :
        benchSummary[r].resolved =>
            benchSummary[r].participants = bench[r].snapshot

\* C2: for every resolved benchmark, responded plus the number of pending
\* clientIds equals participants.
C2_RespondedPlusPendingIsParticipants ==
    \A r \in ReqIds :
        benchSummary[r].resolved =>
            /\ benchSummary[r].responded = Len(benchSummary[r].results)
            /\ benchSummary[r].responded + Cardinality(benchSummary[r].pending)
                  = benchSummary[r].participants

\* a benchmark resolved with a report received and a client still expected
C2_Witness ==
    \E r \in ReqIds :
        /\ benchSummary[r].resolved
        /\ benchSummary[r].responded > 0
        /\ benchSummary[r].pending # {}

\* C3: for every map-reduce summary, completedTasks equals totalTasks
\* minus pendingTasks, and failedTasks is at most completedTasks.
C3_CompletedIsTotalMinusPending ==
    \A r \in MrIds :
        mrSummary[r].resolved =>
            /\ mrSummary[r].completedTasks
                  = mrSummary[r].totalTasks - mrSummary[r].pendingTasks
            /\ mrSummary[r].failedTasks <= mrSummary[r].completedTasks

JoinsSettled ==
    \A h \in Handles : joinProc[h].pc \in {"none", "ok", "failed"}

\* C4: after any sequence of successful joins, failed joins, disconnects
\* and dead-session evictions (no join in progress), the registry size
\* equals the number of successful joins minus the number of leaves.
C4_SizeIsJoinsMinusLeaves ==
    JoinsSettled => Len(clients) = joins - leaves

\* the results a request shows: the pending entry's, then the summary's
ResultsOf(r) ==
    IF benchSummary[r].resolved THEN benchSummary[r].results
    ELSE bench[r].results

IsPrefix(a, b) ==
    /\ Len(a) <= Len(b)
    /\ \A i \in 1..Len(a) : a[i] = b[i]

C8_RepeatedReportStep ==
    \A r \in ReqIds, c \in ReporterIds, d \in Durations :
        ( /\ BenchmarkReport(r, c, d)
          /\ bench[r].status = "pending"
          /\ c \in ReportedIds(bench[r].results) )
        => /\ reportReply'.kind = "accepted"
           /\ ResultsOf(r)' = bench[r].results

C8_ResultsStep ==
    \A r \in ReqIds :
        /\ IsPrefix(ResultsOf(r), ResultsOf(r)')
        /\ Cardinality(ReportedIds(ResultsOf(r)')) = Len(ResultsOf(r)')

\* C8: a benchmark report from a clientId that already reported for the
\* same pending request is accepted and leaves the results as they were;
\* results only grow, by the first report of a clientId, so a summary has
\* at most one result per clientId and it is the first one reported.
C8_SecondReportNotRecorded ==
    [][C8_RepeatedReportStep /\ C8_ResultsStep]_vars

\* a repeated report was answered, with a result on record
C8_Witness ==
    /\ reportReply.kind = "accepted"
    /\ reportReply.repeated
    /\ \E r \in ReqIds : ResultsOf(r) # <<>>

\* C10: in every reachable state and for every pending benchmark, the
\* expected-set and the set of clientIds that have a recorded result are
\* disjoint.
C10_ExpectedReportedDisjoint ==
    \A r \in ReqIds :
        bench[r].status = "pending" =>
            bench[r].expected \cap ReportedIds(bench[r].results) = {}

\* a pending benchmark with one client reported and another still expected
C10_Witness ==
    \E r \in ReqIds :
        /\ bench[r].status = "pending"
        /\ bench[r].results # <<>>
        /\ bench[r].expected # {}

\* a step that takes the session h out of the registry
Removes(h) == InSeq(h, clients) /\ ~InSeq(h, clients')

\* the step is the failure branch of r's own benchmark-request delivery to
\* h, which deletes h's id from the expected-set before it calls removeClient
DroppedByDispatch(r, h) ==
    \E o \in Outcomes \ {"ok"} : BenchmarkDelivery(r, h, o)

C11_NotExpectedAfterRemoval ==
    \A h \in Handles, r \in ReqIds :
        (Removes(h) /\ bench'[r].status = "pending")
        => IdOf(h) \notin bench'[r].expected

C11_EmptiedIsResolved ==
    \A h \in Handles, r \in ReqIds :
        ( /\ Removes(h)
          /\ bench[r].status = "pending"
          /\ IdOf(h) \in bench[r].expected
          /\ bench'[r].expected = {} )
        => bench'[r].status = "resolved"

C11_EmptiedByDepartureIsResolved ==
    \A h \in Handles, r \in ReqIds :
        ( /\ Removes(h)
          /\ bench[r].status = "pending"
          /\ IdOf(h) \in bench[r].expected
          /\ bench'[r].expected = {}
          /\ ~DroppedByDispatch(r, h) )
        => /\ bench'[r].status = "resolved"
           /\ benchSummary'[r].resolved
           /\ benchSummary'[r].pending = {}

\* C11 (as stated): when a step removes a client from the registry, its
\* clientId is afterwards in no pending benchmark's expected-set, and every
\* pending benchmark whose expected-set the step emptied is resolved.
C11_RemovalDrainsAndResolves ==
    [][C11_NotExpectedAfterRemoval /\ C11_EmptiedIsResolved]_vars

\* C11 (amended): when a step removes a client from the registry, its
\* clientId is afterwards in no pending benchmark's expected-set, and every
\* pending benchmark whose expected-set the step emptied is resolved, unless
\* the step is the failure of that benchmark's own benchmark-request
\* delivery to the client (then the benchmark waits for its other
\* deliveries to settle).
C11_DepartureDrainsAndResolves ==
    [][C11_NotExpectedAfterRemoval /\ C11_EmptiedByDepartureIsResolved]_vars

\* a benchmark that no client reported to and that the departure of its
\* last expected client resolved
C11_Witness ==
    \E r \in ReqIds :
        /\ benchSummary[r].resolved
        /\ benchSummary[r].responded = 0
        /\ benchSummary[r].pending = {}
        /\ benchSummary[r].message = "Benchmark completed"
        /\ clients = <<>>
        /\ leaves > 0

\* C12: every task of a map-reduce whose completedAt is set has exactly one
\* of result and error set, whichever way it was completed.
C12_ExactlyOneOfResultAndError ==
    \A r \in MrIds :
        \A i \in 1..Len(mr[r].tasks) :
            mr[r].tasks[i].completed =>
                (mr[r].tasks[i].result # NoResult)
                    # (mr[r].tasks[i].error # NoError)

ReassignError == "Failed to reassign after client departure"

\* task i of request r is held by the session h: pending request,
\* completedAt unset, assignedTo = h's clientId
Holds(h, r, i) ==
    /\ mr[r].status = "pending"
    /\ i <= Len(mr[r].tasks)
    /\ ~mr[r].tasks[i].completed
    /\ mr[r].tasks[i].assignedTo = IdOf(h)

\* a mapreduce-task delivery of the re-dispatch of task i is outstanding
Redispatching(r, i) ==
    \E K \in mrProc : K.req = r /\ K.task = i /\ K.kind = "reassign"

C13_ClearedOnDeparture ==
    \A h \in Handles, r \in MrIds, i \in TaskIds :
        (Removes(h) /\ Holds(h, r, i))
        => /\ mr'[r].tasks[i].assignedTo = ""
           /\ [req |-> r, task |-> i] \in mrTimers'

\* the scheduled callback ran: a delivery to a registered client is under
\* way, or the task is completed with the reassignment error
C13_CallbackRedispatchesOrFails ==
    \A r \in MrIds, i \in TaskIds :
        ( /\ [req |-> r, task |-> i] \in mrTimers
          /\ [req |-> r, task |-> i] \notin mrTimers'
          /\ MapReduceReassign(r, i) )
        => \/ Redispatching(r, i)'
           \/ /\ mr'[r].tasks[i].completed
              /\ mr'[r].tasks[i].error = ReassignError

C13_PendingCallbackRedispatchesOrFails ==
    \A r \in MrIds, i \in TaskIds :
        ( /\ mr[r].status = "pending"
          /\ [req |-> r, task |-> i] \in mrTimers
          /\ [req |-> r, task |-> i] \notin mrTimers'
          /\ MapReduceReassign(r, i) )
        => \/ /\ Redispatching(r, i)'
              /\ clients # <<>>
           \/ /\ ~Redispatching(r, i)'
              /\ clients = <<>>
              /\ mr'[r].tasks[i].completed
              /\ mr'[r].tasks[i].error =
                    IF mr[r].tasks[i].error # NoError
                    THEN mr[r].tasks[i].error ELSE ReassignError

\* a delivery of the re-dispatch settled: the task goes to the candidate
\* with one more attempt, or to the next candidate, or it fails
C13_RedispatchSettles ==
    \A r \in MrIds, i \in TaskIds, o \in Outcomes :
        ( /\ \E K \in mrProc \ mrProc' :
                K.req = r /\ K.task = i /\ K.kind = "reassign"
          /\ MapReduceDelivery(r, i, "reassign", o) )
        => \E K \in mrProc \ mrProc' :
              /\ K.req = r /\ K.task = i /\ K.kind = "reassign"
              /\ IF o = "ok"
                 THEN /\ mr'[r].tasks[i].assignedTo = IdOf(Candidate(K))
                      /\ mr'[r].tasks[i].attempts = mr[r].tasks[i].attempts + 1
                 ELSE \/ \E L \in mrProc' : /\ L.req = r /\ L.task = i
                                            /\ L.kind = "reassign"
                                            /\ L.offset > K.offset
                                            /\ InSeq(Candidate(L), clients')
                      \/ /\ mr'[r].tasks[i].completed
                         /\ mr'[r].tasks[i].error =
                               IF mr[r].tasks[i].error # NoError
                               THEN mr[r].tasks[i].error ELSE ReassignError

\* C13 (as stated): when a client that holds an uncompleted task of a
\* pending map-reduce is removed, the task's assignedTo is cleared and a
\* re-dispatch is scheduled; the scheduled re-dispatch sends the task to a
\* remaining client, which gets it with attempts incremented, or else
\* completes it with error "Failed to reassign after client departure".
C13_DepartedTaskIsReassigned ==
    [][/\ C13_ClearedOnDeparture
       /\ C13_CallbackRedispatchesOrFails
       /\ C13_RedispatchSettles]_vars

\* C13 (amended): as stated, provided the map-reduce is still pending when
\* the scheduled re-dispatch runs (otherwise nothing is dispatched), and
\* with the error of a task that already carries one left as it is.
C13_DepartedTaskIsReassignedWhilePending ==
    [][/\ C13_ClearedOnDeparture
       /\ C13_PendingCallbackRedispatchesOrFails
       /\ C13_RedispatchSettles]_vars

\* two workers, the first one left holding the task: the task is with the
\* second one, at its second attempt
C13_Witness ==
    \E r \in MrIds :
        /\ mr[r].status = "pending"
        /\ Len(mr[r].tasks) = 1
        /\ clients = <<2>>
        /\ joinProc[1].pc = "ok"
        /\ mr[r].tasks[1].assignedTo = IdOf(2)
        /\ mr[r].tasks[1].attempts = 2
        /\ ~mr[r].tasks[1].completed

\* C14: a map-reduce report for a task whose completedAt is already set is
\* answered accepted = false ("Task already reported") and changes nothing
\* of the task (result, error, metadata, completedAt) nor of its request,
\* whatever the report carries and whoever sends it.
C14_RepeatedReportRejected ==
    [][\A r \in MrIds, i \in TaskIds, rep \in ReportInputs :
          ( /\ mr[r].status = "pending"
            /\ i <= Len(mr[r].tasks)
            /\ mr[r].tasks[i].completed
            /\ MapReduceReport(r, i, rep.result, rep.failed, rep.metadata) )
          => /\ reportReply'.kind = "already-reported"
             /\ mr'[r] = mr[r]
             /\ mrSummary' = mrSummary]_vars

\* a second report for a task was refused; the first one's result stands
C14_Witness ==
    /\ reportReply.kind = "already-reported"
    /\ \E r \in MrIds :
          /\ mr[r].status = "pending"
          /\ \E i \in 1..Len(mr[r].tasks) :
                /\ mr[r].tasks[i].completed
                /\ mr[r].tasks[i].result # NoResult
                /\ mr[r].tasks[i].metadata # NoMetadata

(***************************************************************************)
(* Properties of addClient's messages.                                     *)
(***************************************************************************)
EventsOf(evs, type, about) ==
    SelectSeq(evs, LAMBDA e : e.type = type /\ e.about = about)

\* addClient(h) moves on: from registration to the client-list delivery,
\* to the client-match delivery, to the client-joined broadcast
ListIssued(h) == joinProc[h].pc = "none" /\ joinProc'[h].pc = "list"
MatchIssued(h) == joinProc[h].pc = "list" /\ joinProc'[h].pc = "match"
JoinedIssued(h) ==
    /\ joinProc[h].pc \in {"list", "match"}
    /\ joinProc'[h].pc \in {"joined", "ok"}

C15_ClientListFirst ==
    \A h \in Handles :
        /\ ListIssued(h) =>
              /\ events' = <<[type |-> "client-list", to |-> h, about |-> h,
                              clients |-> clients',
                              match |-> joinProc'[h].nearest]>>
              /\ InSeq(h, clients')
              /\ ~InSeq(h, clients)
              /\ joinProc'[h].nearest \in {0} \cup RangeOf(clients)
        /\ \A k \in 1..Len(events') :
              (events'[k].to = h /\ joinProc[h].pc = "none")
              => (k = 1 /\ events'[k].type = "client-list")

C15_ThenClientMatch ==
    \A h \in Handles :
        /\ MatchIssued(h) =>
              /\ joinProc[h].nearest # 0
              /\ events' = IF InSeq(joinProc[h].nearest, clients)
                           THEN <<Event("client-match", joinProc[h].nearest, h)>>
                           ELSE <<>>
        /\ (joinProc[h].pc = "list" /\ JoinedIssued(h))
              => joinProc[h].nearest = 0

C15_ThenClientJoined ==
    \A h \in Handles :
        JoinedIssued(h) =>
            /\ clients' = clients
            /\ events' = [k \in 1..Len(clients) |->
                            Event("client-joined", clients[k], h)]
            /\ joinProc'[h].pc = "ok" <=> clients = <<>>
            /\ joinProc'[h].pc = "joined" => joinProc'[h].wait = RangeOf(clients)

\* each of the three messages of a join is dispatched by its own step
\* only, and addClient only moves forward
C15_NothingElse ==
    \A h \in Handles :
        /\ EventsOf(events', "client-list", h) # <<>> => ListIssued(h)
        /\ EventsOf(events', "client-match", h) # <<>> => MatchIssued(h)
        /\ EventsOf(events', "client-joined", h) # <<>> => JoinedIssued(h)
        /\ joinProc'[h].pc = "list" => joinProc[h].pc \in {"none", "list"}
        /\ joinProc'[h].pc = "match" => joinProc[h].pc \in {"list", "match"}
        /\ joinProc'[h].pc = "joined" =>
              joinProc[h].pc \in {"list", "match", "joined"}
        /\ joinProc'[h].pc = "ok" =>
              joinProc[h].pc \in {"list", "match", "joined", "ok"}
        /\ joinProc'[h].pc = "none" => joinProc[h].pc = "none"

\* C15: a successful join dispatches, in this order, exactly one
\* client-list to the joining session (with the registry including the
\* joiner, and the nearest neighbour or null), before any other hub message
\* to that session; then exactly one client-match to the nearest neighbour
\* if there is one (and its stub is still registered); then one
\* client-joined to every registered client.
C15_JoinMessagesInOrder ==
    [][/\ C15_ClientListFirst
       /\ C15_ThenClientMatch
       /\ C15_ThenClientJoined
       /\ C15_NothingElse]_vars

\* the second session's join reached its client-joined broadcast, to both
\* registered sessions, after the first session's join returned
C15_Witness ==
    /\ joinProc[1].pc = "ok"
    /\ joinProc[2].pc = "joined"
    /\ clients = <<1, 2>>
    /\ events = <<Event("client-joined", 1, 2), Event("client-joined", 2, 2)>>

\* the client-list delivery of addClient(h) failed: addClient rethrows
ListFailed(h) == joinProc[h].pc = "list" /\ joinProc'[h].pc = "failed"

C16_FailedListRollsBack ==
    \A h \in Handles :
        /\ ListFailed(h) =>
              /\ ~InSeq(h, clients')
              /\ EventsOf(events', "client-match", h) = <<>>
              /\ EventsOf(events', "client-joined", h) = <<>>
        /\ joinProc[h].pc = "failed" =>
              /\ joinProc'[h].pc = "failed"
              /\ ~InSeq(h, clients')
              /\ EventsOf(events', "client-match", h) = <<>>
              /\ EventsOf(events', "client-joined", h) = <<>>
        /\ joinProc'[h].pc = "failed" =>
              joinProc[h].pc \in {"list", "failed"}

C16_MalformedChangesNothing ==
    \A h \in Handles :
        JoinMalformed(h) =>
            /\ clients' = clients
            /\ joinProc' = joinProc
            /\ flying' = flying
            /\ events' = <<>>

\* C16: when the client-list delivery fails, join fails, the joiner is not
\* in the registry from then on, and no client-match and no client-joined
\* is ever dispatched for it; a join with a malformed descriptor changes
\* nothing of the registry and dispatches no message.
C16_FailedJoinLeavesNoTrace ==
    [][C16_FailedListRollsBack /\ C16_MalformedChangesNothing]_vars

\* the second session's client-list delivery failed and it was taken out
\* again, the first session staying registered
C16_Witness ==
    /\ joinProc[2].pc = "failed"
    /\ clients = <<1>>
    /\ events = <<Event("client-left", 1, 2), Event("departure", 0, 2)>>

C17_RemovalStep ==
    \A h \in Handles :
        /\ Removes(h) =>
              /\ Len(clients') = Len(clients) - 1
              /\ EventsOf(events', "client-left", h)
                    = [k \in 1..Len(clients') |->
                         Event("client-left", clients'[k], h)]
              /\ EventsOf(events', "departure", h)
                    = <<Event("departure", 0, h)>>
        /\ ~Removes(h) =>
              /\ EventsOf(events', "client-left", h) = <<>>
              /\ EventsOf(events', "departure", h) = <<>>
        /\ (joinProc[h].pc # "none" /\ ~InSeq(h, clients))
              => ~InSeq(h, clients')

\* C17: whatever triggers removeClient for a session handle, and however
\* often, only the step that finds the handle in the registry removes the
\* entry, broadcasts client-left for it (once to each remaining session)
\* and notifies the coordinators of the departure (once); the handle is
\* never registered again, so this happens at most once per handle.
C17_RemovedExactlyOnce == [][C17_RemovalStep]_vars

\* removal was triggered twice for the second session (it broke while its
\* client-list was awaited, then that delivery failed): the second
\* trigger found nothing to remove
C17_Witness ==
    /\ joinProc[2].pc = "failed"
    /\ joinProc[1].pc = "ok"
    /\ clients = <<1>>
    /\ leaves = 1
    /\ events = <<>>

\* C18: a broadcast call returns the number of clients that were in the
\* registry when it was entered, also when recipients were evicted or
\* clients joined during its fan-out.
C18_ReturnsEntrySize ==
    bcast.pc = "returned" => bcast.returned = bcast.entered

(***************************************************************************)
(* Termination of the coordinators' requests.                              *)
(***************************************************************************)
BenchPending(r) == bench[r].status = "pending"
BenchTerminated(r) == bench[r].status = "resolved" /\ benchSummary[r].resolved

C19_TerminationStep ==
    \A r \in ReqIds :
        \* the timer's firing terminates the request, reports or no reports
        /\ EventsOf(events', "benchmark-timeout", r) # <<>>
              => (BenchPending(r) /\ BenchTerminated(r)')
        \* leaving the pending set and producing the summary are one step
        /\ (BenchPending(r) /\ ~BenchPending(r)')
              => (~benchSummary[r].resolved /\ BenchTerminated(r)')
        \* the first termination stands
        /\ BenchTerminated(r) =>
              (BenchTerminated(r)' /\ benchSummary'[r] = benchSummary[r])
        \* a report or a departure that drains the expected-set terminates
        /\ ( /\ BenchPending(r)
             /\ bench[r].expected # {}
             /\ bench'[r].expected = {}
             /\ \A h \in Handles : ~DroppedByDispatch(r, h) )
              => BenchTerminated(r)'

\* C19: every pending benchmark is eventually terminated (out of the
\* pending set, with its summary produced, in one step): by the report or
\* the departure that drains its expected-set, or else by its timer, which
\* is armed as long as the benchmark is pending and whose firing terminates
\* it even if no client ever reported.
C19_PendingBenchmarkTerminates ==
    /\ [][C19_TerminationStep]_vars
    /\ \A r \in ReqIds : BenchPending(r) ~> BenchTerminated(r)

\* a benchmark that no client reported to, just terminated by its timer
C19_Witness ==
    \E r \in ReqIds :
        /\ BenchTerminated(r)
        /\ events = <<Event("benchmark-timeout", 0, r)>>
        /\ benchSummary[r].responded = 0
        /\ benchSummary[r].pending # {}
        /\ benchSummary[r].message
              = "Benchmark timed out before all nodes replied"

MrPending(r) == mr[r].status = "pending"
MrResolved(r) == mr[r].status = "resolved" /\ mrSummary[r].resolved
NoResponseError == "No response received"

C20_ResolutionStep ==
    \A r \in MrIds :
        \* the timer's firing resolves the request and closes every
        \* unfinished task with the error
        /\ EventsOf(events', "mapreduce-timeout", r) # <<>> =>
              /\ MrPending(r)
              /\ MrResolved(r)'
              /\ \A i \in 1..Len(mr[r].tasks) :
                    IF mr[r].tasks[i].completed
                    THEN mr'[r].tasks[i] = mr[r].tasks[i]
                    ELSE /\ mr'[r].tasks[i].completed
                         /\ mr'[r].tasks[i].error = NoResponseError
                         /\ mr'[r].tasks[i].result = NoResult
        \* so does mapreduce cancel, for a pending request
        /\ (MrPending(r) /\ reportReply'.kind \in {"cancelled", "not-cancelled"}
                         /\ reportReply'.req = r)
              => (reportReply'.kind = "cancelled" /\ MrResolved(r)')
        \* and the accepted report that leaves no task unfinished
        /\ ( /\ reportReply'.kind = "mr-accepted"
             /\ reportReply'.req = r
             /\ \A j \in 1..Len(mr'[r].tasks) : mr'[r].tasks[j].completed )
              => (MrPending(r) /\ MrResolved(r)')
        \* leaving the pending set and producing the summary are one step
        /\ (MrPending(r) /\ ~MrPending(r)')
              => (~mrSummary[r].resolved /\ MrResolved(r)')
        \* the first resolution stands
        /\ MrResolved(r) =>
              (MrResolved(r)' /\ mrSummary'[r] = mrSummary[r])
        \* a report for a resolved request is refused and changes nothing
        /\ ( /\ MrResolved(r)
             /\ reportReply'.req = r
             /\ reportReply'.kind \in {"mr-accepted", "unknown-request",
                                       "unknown-task", "already-reported"} )
              => /\ reportReply'.kind = "unknown-request"
                 /\ mr' = mr
                 /\ mrSummary' = mrSummary

\* C20: every started map-reduce is eventually resolved: by the report
\* that completes its last task, by mapreduce cancel, or else by its
\* timer, whose firing completes every unfinished task with error "No
\* response received"; the first resolution stands, and from then on
\* status reports the request inactive and reports for it are refused.
C20_StartedMapReduceResolves ==
    /\ [][C20_ResolutionStep]_vars
    /\ [](\A r \in MrIds : MrResolved(r) => ~mapReduceStatus(Hub, r).active)
    /\ \A r \in MrIds : MrPending(r) ~> MrResolved(r)

\* a map-reduce resolved by its timer with a task closed as unanswered,
\* and a report for it refused afterwards
C20_Witness ==
    \E r \in MrIds :
        /\ MrResolved(r)
        /\ mrSummary[r].message
              = "MapReduce timed out before all tasks completed"
        /\ \E i \in 1..Len(mr[r].tasks) :
              mr[r].tasks[i].error = NoResponseError
        /\ reportReply.kind = "unknown-request"

\* the message of the timer callback (it contains "timed out")
BenchmarkTimedOut == "Benchmark timed out before all nodes replied"

\* the start takes every registered clientId into the expected-set; from
\* then on a clientId leaves it when, and only when, its report is recorded
\* or its session leaves the registry (departure or failed delivery)
C21_ExpectedSetStep ==
    \A r \in ReqIds :
        /\ (bench[r].status = "none" /\ bench'[r].status = "pending")
              => /\ bench'[r].expected = {IdOf(h) : h \in RangeOf(clients)}
                 /\ bench'[r].results = <<>>
        /\ bench[r].status = "pending"
              => bench'[r].expected =
                    bench[r].expected
                      \ ( {IdOf(h) : h \in {g \in Handles : Removes(g)}}
                          \cup ( ReportedIds(ResultsOf(r)')
                                 \ ReportedIds(bench[r].results) ) )

C21_TimerStep ==
    \A r \in ReqIds :
        EventsOf(events', "benchmark-timeout", r) # <<>>
        => /\ bench[r].status = "pending"
           /\ benchSummary'[r].resolved
           /\ benchSummary'[r].message = BenchmarkTimedOut
           /\ benchSummary'[r].responded = Len(bench[r].results)
           /\ benchSummary'[r].results = bench[r].results
           /\ benchSummary'[r].pending = bench[r].expected
           /\ bench[r].expected \cap ReportedIds(bench[r].results) = {}
           /\ bench[r].expected \subseteq {IdOf(h) : h \in RangeOf(clients)}

\* C21: when the timer of a pending benchmark fires, the benchmark resolves
\* with the "timed out" message, responded is the number of reports
\* recorded so far, and pending is exactly the expected-set: the clientIds
\* of the snapshot that neither reported, nor departed, nor failed delivery.
C21_TimeoutSummary == [][C21_ExpectedSetStep /\ C21_TimerStep]_vars

\* a benchmark of two clients timed out after one of them reported
C21_Witness ==
    \E r \in ReqIds :
        /\ events = <<Event("benchmark-timeout", 0, r)>>
        /\ benchSummary[r].resolved
        /\ benchSummary[r].message = BenchmarkTimedOut
        /\ benchSummary[r].responded = 1
        /\ Cardinality(benchSummary[r].pending) = 1

\* the registry entry at insertion position p (0-based)
EntryAt(p) == clients[p + 1]

\* the tasks of request r that have been handed to a client
AssignedTasks(r) ==
    {j \in 1..Len(mr[r].tasks) : mr[r].tasks[j].attempts > 0}

\* a delivery of the start loop settles successfully while the registry is
\* the snapshot the dispatch took: the task goes to the entry at the cursor
\* and the cursor moves to the slot after it
C22_DispatchStep ==
    \A r \in MrIds, i \in TaskIds :
        \A K \in mrProc \ mrProc' :
            ( /\ K.req = r /\ K.task = i /\ K.kind = "start"
              /\ K.participants = clients
              /\ clients' = clients
              /\ mr'[r].tasks[i].attempts = mr[r].tasks[i].attempts + 1 )
            => LET n == Len(clients)
                   p == mr[r].nextClientIndex % n
               IN /\ K.offset = 0
                  /\ mr'[r].tasks[i].assignedTo = IdOf(EntryAt(p))
                  /\ mr'[r].nextClientIndex = (p + 1) % n

\* with the registry as it was established, the j-th task (0-based) is
\* with the entry at position j mod n while it is assigned, and the cursor
\* is the slot after the last assignee
C22_RoundRobin ==
    clients = [h \in Handles |-> h] =>
        \A r \in MrIds :
            LET n == Len(clients) IN
            /\ \A j \in 1..Len(mr[r].tasks) :
                  mr[r].tasks[j].assignedTo # ""
                     => mr[r].tasks[j].assignedTo = IdOf(EntryAt((j - 1) % n))
            /\ \A j \in AssignedTasks(r) :
                  /\ mr[r].tasks[j].attempts = 1
                  /\ mr[r].tasks[j].assignedTo # ""
                  /\ \A k \in 1..j : k \in AssignedTasks(r)
            /\ mr[r].nextClientIndex = Cardinality(AssignedTasks(r)) % n

\* C22: with a registry of n clients that does not change during the start
\* and no delivery failures, mapreduce start assigns the j-th task (0-based,
\* in task order) to the registry entry at insertion position j mod n, and
\* after each successful dispatch the cursor is the slot following the
\* assignee.
C22_RoundRobinAssignment == [][C22_DispatchStep]_vars /\ []C22_RoundRobin

\* two tasks over two clients: a to the first, b to the second, and the
\* cursor back at the first
C22_Witness ==
    \E r \in MrIds :
        /\ clients = [h \in Handles |-> h]
        /\ Len(mr[r].tasks) = MaxTasks
        /\ mr[r].tasks[1].assignedTo = IdOf(1)
        /\ mr[r].tasks[MaxTasks].assignedTo = IdOf(((MaxTasks - 1) % MaxHandles) + 1)
        /\ mr[r].nextClientIndex = MaxTasks % MaxHandles

\* task j of a resolved request counts for the reduction
Succeeded(t) == t.completed /\ t.error = NoError

\* the results of the first n tasks that succeeded, in task order
RECURSIVE SuccessesUpTo(_, _)
SuccessesUpTo(tasks, n) ==
    IF n = 0 THEN <<>>
    ELSE IF Succeeded(tasks[n])
         THEN Append(SuccessesUpTo(tasks, n - 1), tasks[n].result)
         ELSE SuccessesUpTo(tasks, n - 1)

\* the sum of the numeric results among the first n tasks that succeeded
RECURSIVE NumericSumUpTo(_, _)
NumericSumUpTo(tasks, n) ==
    IF n = 0 THEN 0
    ELSE NumericSumUpTo(tasks, n - 1)
           + (IF Succeeded(tasks[n]) /\ tasks[n].result \in NumericValues
              THEN NumberOf(tasks[n].result) ELSE 0)

\* an accepted report records its result in the slot of its task, whatever
\* was reported before, and touches the result of no other task
C23_ReportStep ==
    \A r \in MrIds :
        (reportReply'.kind = "mr-accepted" /\ reportReply'.req = r)
        => \E i \in 1..Len(mr[r].tasks) :
              /\ ~mr[r].tasks[i].completed
              /\ mr'[r].tasks[i].completed
              /\ \A j \in 1..Len(mr[r].tasks) :
                    j # i => mr'[r].tasks[j].result = mr[r].tasks[j].result

\* the step that resolves the request reduces the tasks as they stand in
\* that step (tasks it closes itself carry an error), and the summary is
\* not recomputed afterwards
C23_ResolutionStep ==
    \A r \in MrIds :
        /\ (MrPending(r) /\ MrResolved(r)') =>
              LET tasks == mr'[r].tasks
                  v == mrSummary'[r].reducedValue
              IN /\ v.collect = SuccessesUpTo(tasks, Len(tasks))
                 /\ v.count = Cardinality({j \in 1..Len(tasks) :
                                              Succeeded(tasks[j])})
                 /\ v.sum = NumericSumUpTo(tasks, Len(tasks))
        /\ MrResolved(r) =>
              mrSummary'[r].reducedValue = mrSummary[r].reducedValue

\* C23: the reduced value is computed only from the results of the tasks
\* that completed without error, taken in task order whatever the order in
\* which the reports arrived: collect yields that list, count its length,
\* and sum the sum of its numeric members.
C23_ReducedValue == [][C23_ReportStep /\ C23_ResolutionStep]_vars

\* two tasks reported 2 and x: collect is [2, x], count 2, sum 2
C23_Witness ==
    \E r \in MrIds :
        /\ MrResolved(r)
        /\ mrSummary[r].message = "MapReduce completed successfully"
        /\ mrSummary[r].reducedValue
              = [collect |-> <<"2", "x">>, count |-> 2, sum |-> 2]

\* what the hub holds, the records of the last step aside
HubState == <<clients, flying, leaves, bcast, bench, benchSummary,
              mr, mrProc, mrTimers, mrSummary>>

\* the step takes a session out of the registry and notifies the
\* coordinators of the departure
DepartureStep == \E h \in Handles : EventsOf(events', "departure", h) # <<>>

C24_BenchmarkStep ==
    \A r \in ReqIds :
        \* the entry leaves the pending set in the step that invokes the
        \* resolver, and the resolver had not been invoked before
        /\ (BenchPending(r) /\ ~BenchPending(r)')
              => (~benchSummary[r].resolved /\ BenchTerminated(r)')
        /\ (~benchSummary[r].resolved /\ benchSummary'[r].resolved)
              => BenchPending(r)
        \* no second summary
        /\ BenchTerminated(r)
              => (BenchTerminated(r)' /\ benchSummary'[r] = benchSummary[r])
        \* the timer is cleared: it fires for a pending request only
        /\ EventsOf(events', "benchmark-timeout", r) # <<>> => BenchPending(r)
        \* a late report is refused and changes nothing
        /\ ( /\ BenchTerminated(r)
             /\ reportReply'.req = r
             /\ reportReply'.kind \in {"accepted", "unknown"} )
              => (reportReply'.kind = "unknown" /\ HubState' = HubState)
        \* a late departure leaves the request as it is
        /\ ( /\ BenchTerminated(r)
             /\ DepartureStep
             /\ bench'[r].waiting = bench[r].waiting )
              => bench'[r] = bench[r]

C24_MapReduceStep ==
    \A r \in MrIds :
        /\ (MrPending(r) /\ ~MrPending(r)')
              => (~mrSummary[r].resolved /\ MrResolved(r)')
        /\ (~mrSummary[r].resolved /\ mrSummary'[r].resolved)
              => MrPending(r)
        /\ MrResolved(r)
              => (MrResolved(r)' /\ mrSummary'[r] = mrSummary[r])
        /\ EventsOf(events', "mapreduce-timeout", r) # <<>> => MrPending(r)
        \* a late report or cancel is refused and changes nothing
        /\ ( /\ MrResolved(r)
             /\ reportReply'.req = r
             /\ reportReply'.kind \in {"mr-accepted", "unknown-request",
                                       "unknown-task", "already-reported",
                                       "cancelled", "not-cancelled"} )
              => /\ reportReply'.kind \in {"unknown-request", "not-cancelled"}
                 /\ HubState' = HubState
        \* a late departure leaves the request as it is and arms nothing
        /\ ( /\ MrResolved(r)
             /\ DepartureStep
             /\ mrProc' = mrProc )
              => /\ mr'[r] = mr[r]
                 /\ \A t \in mrTimers' \ mrTimers : t.req # r

\* C24: for each request, benchmark or map-reduce, the resolver is invoked
\* at most once: resolution takes the entry out of the pending set and
\* clears its timer in the step that produces the summary, and a later
\* timer, report, departure or cancel for the request produces no second
\* summary and changes nothing of the request.
C24_ResolvedOnce == [][C24_BenchmarkStep /\ C24_MapReduceStep]_vars

\* a resolved benchmark whose late report has just been refused
C24_Witness ==
    \E r \in ReqIds :
        /\ BenchTerminated(r)
        /\ benchSummary[r].responded > 0
        /\ reportReply = [kind |-> "unknown", req |-> r, repeated |-> FALSE]

\* scheduleAlarmForExpiration(d) of the handler in slot s completes
ScheduleCompletes(s) ==
    kvOps[s].pc = "sched_get" /\ kvOps'[s].pc = "idle"

\* C25: scheduleExpiry never raises the wake-up time: when
\* scheduleExpiry(d) completes, the alarm is d if there was none and else
\* the minimum of the alarm before and d, whatever put, expire and the
\* alarm handler did in between.
C25_ScheduleIsMin ==
    [][\A s \in KvSlots :
          ScheduleCompletes(s) =>
              alarm' = IF alarm = NoAlarm THEN kvOps[s].t
                       ELSE Min(alarm, kvOps[s].t)]_vars

\* the keys of the entries that carry an expiry
Expiring(st) == {k \in KvKeys : st[k].present /\ st[k].expiresAt # NoExpiry}

\* the earliest expiresAt among the entries, NoAlarm when none has one
EarliestExpiry(st) ==
    IF Expiring(st) = {} THEN NoAlarm
    ELSE LET k == CHOOSE k \in Expiring(st) :
                     \A j \in Expiring(st) : st[k].expiresAt <= st[j].expiresAt
         IN st[k].expiresAt

\* the alarm handler has read the entries and the time: it goes on to
\* delete what it found expired
SweepDecided == alarmProc.pc = "list" /\ alarmProc'.pc # "list"
\* the alarm handler completes with scheduleNextAlarm
SweepCompletes == alarmProc.pc = "next_list" /\ alarmProc'.pc = "idle"

\* C26: when the alarm fires at time now, every entry with expiresAt <= now
\* is deleted and the entries without expiry are kept, and afterwards the
\* wake-up is the earliest expiresAt among the remaining entries, or no
\* alarm when none of them has an expiry.
C26_AlarmSweepsDueEntries ==
    [][ /\ SweepDecided =>
              RangeOf(alarmProc'.todo)
                 = {k \in Expiring(store) : store[k].expiresAt <= now}
        /\ SweepCompletes => alarm' = EarliestExpiry(store) ]_vars

\* the sessions that the step handed a message of the given type
Recipients(evs, type) ==
    {evs[i].to : i \in {j \in 1..Len(evs) : evs[j].type = type}}

\* broadcast (here of client-left) and the benchmark dispatch hand the
\* message to every recipient of their snapshot in the step that starts them
C27_FanOutStep ==
    /\ \A h \in Handles :
          EventsOf(events', "departure", h) # <<>>
             => Recipients(events', "client-left") = RangeOf(clients')
    /\ \A r \in ReqIds :
          (bench[r].status = "none" /\ bench'[r].status = "pending")
             => Recipients(events', "benchmark-request") = RangeOf(clients)

\* while a mapreduce-task delivery of the start is outstanding, every later
\* task of the request has been handed to a client as well
C27_TasksNotHeldBack ==
    \A K \in mrProc :
        (K.kind = "start" /\ Len(K.participants) > 1
                          /\ mr[K.req].status = "pending")
        => \A j \in 1..Len(mr[K.req].tasks) :
              j > K.task =>
                 \/ mr[K.req].tasks[j].attempts > 0
                 \/ mr[K.req].tasks[j].completed
                 \/ \E L \in mrProc : L.req = K.req /\ L.task = j

\* C27: a slow worker slows only its own delivery: in broadcast, benchmark
\* dispatch and map-reduce task dispatch, a recipient whose delivery has
\* not yet completed does not delay the start of the delivery to any other
\* recipient.
C27_SlowRecipientDelaysNoOther ==
    [][C27_FanOutStep]_vars /\ []C27_TasksNotHeldBack

\* the delivery to t settled with outcome o: t is evicted exactly when the
\* error is a dead-session error (and t is still registered), nobody else
\* is, and the call goes on to its other deliveries or returns
C28_DeliveryStep ==
    \A t \in Handles, o \in Outcomes :
        /\ BroadcastDelivery(t, o) =>
              /\ Removes(t) <=> (o = "dead" /\ InSeq(t, clients))
              /\ \A g \in Handles \ {t} : ~Removes(g)
              /\ IF bcast.wait = {t}
                 THEN bcast'.pc = "returned"
                 ELSE bcast'.pc = "fanout" /\ bcast'.wait = bcast.wait \ {t}
        /\ LeftDelivery(t, o) =>
              /\ Removes(t) <=> (o = "dead" /\ InSeq(t, clients))
              /\ \A g \in Handles \ {t} : ~Removes(g)
        /\ \A h \in Handles :
              JoinedDelivery(h, t, o) =>
                 /\ Removes(t) <=> (o = "dead" /\ InSeq(t, clients))
                 /\ \A g \in Handles \ {t} : ~Removes(g)
                 /\ joinProc'[h].pc \in {"joined", "ok"}

\* C28: in broadcast, a recipient is evicted from the registry if and only
\* if its delivery raised an error classified as dead-session; any other
\* delivery error leaves the recipient registered, and neither kind makes
\* broadcast fail to its caller.
C28_EvictedIffDeadSession == [][C28_DeliveryStep]_vars

\* a broadcast to two recipients has just returned 1: its last delivery
\* evicted the recipient
C28_Witness ==
    /\ bcast.pc = "returned"
    /\ bcast.entered = MaxHandles
    /\ bcast.returned = Len(clients)
    /\ Len(clients) = MaxHandles - 1
    /\ \E h \in Handles : EventsOf(events, "departure", h) # <<>>

\* C29: in benchmark dispatch, every recipient whose delivery fails is
\* removed from the expected-set, and it is evicted from the registry only
\* if the failure is classified as dead-session: a recipient whose
\* delivery failed with a transient error remains registered.
C29_TransientFailureKeepsRecipient ==
    [][\A r \in ReqIds, t \in Handles, o \in Outcomes \ {"ok"} :
          BenchmarkDelivery(r, t, o) =>
              /\ IdOf(t) \notin bench'[r].expected
              /\ Removes(t) => o = "dead"]_vars

DispatchError == "Failed to dispatch task to any client"

\* the candidate of snapshot K at offset off
CandidateAt(K, off) ==
    K.participants[((K.startIndex + off) % Len(K.participants)) + 1]

\* the delivery of task i to its candidate failed during the start: the
\* candidate is out of the registry, and the dispatch is at the next
\* candidate of its snapshot, in round-robin order, whose stub is still
\* live, or else the task is closed with the error
C30_FailedDeliveryStep ==
    \A r \in MrIds, i \in TaskIds :
        \A K \in mrProc \ mrProc' :
            ( /\ K.req = r /\ K.task = i /\ K.kind = "start"
              /\ \E o \in Outcomes \ {"ok"} : MapReduceDelivery(r, i, "start", o) )
            => /\ ~InSeq(Candidate(K), clients')
               /\ \/ \E L \in mrProc' \ mrProc :
                        /\ L = [K EXCEPT !.offset = L.offset]
                        /\ L.offset > K.offset
                        /\ L.offset < Len(K.participants)
                        /\ InSeq(Candidate(L), clients')
                        /\ \A off \in (K.offset + 1)..(L.offset - 1) :
                              ~InSeq(CandidateAt(K, off), clients')
                        /\ EventsOf(events', "mapreduce-task", 0)
                              # <<>>
                        /\ ~mr'[r].tasks[i].completed
                              \/ mr[r].tasks[i].completed
                  \/ /\ \A off \in (K.offset + 1)..(Len(K.participants) - 1) :
                           ~InSeq(CandidateAt(K, off), clients')
                     /\ \A L \in mrProc' : ~(L.req = r /\ L.task = i)
                     /\ mr'[r].tasks[i].completed
                     /\ mr'[r].tasks[i].error = DispatchError

\* a task closed with the error was handed to no client, and is not later
C30_FailedTaskUnassigned ==
    \A r \in MrIds :
        \A i \in 1..Len(mr[r].tasks) :
            mr[r].tasks[i].error = DispatchError
            => /\ mr[r].tasks[i].completed
               /\ mr[r].tasks[i].assignedTo = ""
               /\ mr[r].tasks[i].attempts = 0
               /\ \A K \in mrProc : ~(K.req = r /\ K.task = i)

\* the start finds the registry empty when it comes to the tasks after the
\* one whose delivery settled: each is closed with the error at once
C30_EmptyRegistryStep ==
    \A r \in MrIds :
        \A K \in mrProc \ mrProc' :
            (K.req = r /\ K.kind = "start" /\ clients' = <<>>)
            => \A i \in (K.task + 1)..Len(mr[r].tasks) :
                  /\ mr'[r].tasks[i].completed
                  /\ mr'[r].tasks[i].error = DispatchError
                  /\ mr'[r].tasks[i].assignedTo = ""

\* C30: when the delivery of a map-reduce task to a candidate fails, the
\* candidate is removed from the registry and the next candidate in
\* round-robin order is tried; when no candidate remains during the start
\* (every candidate failed, or the registry is empty), the task is
\* completed with error "Failed to dispatch task to any client" and is
\* never assigned.
C30_FailedDispatch ==
    /\ [][C30_FailedDeliveryStep /\ C30_EmptyRegistryStep]_vars
    /\ []C30_FailedTaskUnassigned

\* every candidate failed: the registry is empty and a task is closed with
\* the error, unassigned
C30_Witness ==
    \E r \in MrIds :
        /\ clients = <<>>
        /\ Len(mr[r].tasks) = MaxTasks
        /\ \A i \in 1..MaxTasks :
              /\ mr[r].tasks[i].error = DispatchError
              /\ mr[r].tasks[i].assignedTo = ""
        /\ mrSummary[r].resolved

\* the deliveries of task i of request r that settled in this step
Settling(r, i) == {K \in mrProc \ mrProc' : K.req = r /\ K.task = i}

\* attempts moves only when a delivery of the task settles: up by one when
\* the worker received the message, whose attempts field then is the
\* task's attempts, and not at all when the delivery failed
C31_AttemptsStep ==
    \A r \in MrIds :
        mr[r].status # "none" =>
            \A i \in 1..Len(mr[r].tasks) :
                LET a == mr[r].tasks[i].attempts
                    b == mr'[r].tasks[i].attempts
                IN /\ b >= a
                   /\ Settling(r, i) = {} => b = a
                   /\ \A K \in Settling(r, i) :
                         /\ MapReduceDelivery(r, i, K.kind, "ok")
                               => (b = a + 1 /\ K.attempts = b)
                         /\ (\E o \in Outcomes \ {"ok"} :
                                MapReduceDelivery(r, i, K.kind, o))
                               => b = a

\* every message in flight carries the attempts the task has once it is
\* delivered, and a task has at most one delivery in flight
C31_MessageAttempts ==
    \A K \in mrProc :
        /\ K.attempts = mr[K.req].tasks[K.task].attempts + 1
        /\ \A L \in mrProc : (L.req = K.req /\ L.task = K.task) => L = K

\* C31: for every task, attempts never decreases and increases by exactly
\* one on each successful dispatch (and not on failed delivery attempts),
\* so attempts equals the number of times the task was delivered to a
\* worker, and the attempts value carried by each mapreduce-task message
\* equals the task's attempts after that dispatch.
C31_AttemptsCountDeliveries ==
    [][C31_AttemptsStep]_vars /\ []C31_MessageAttempts

\* a task delivered twice: first by the start, then by a reassignment whose
\* message carried attempts 2
C31_Witness ==
    \E r \in MrIds :
        /\ mr[r].status = "pending"
        /\ \E i \in 1..Len(mr[r].tasks) :
              /\ mr[r].tasks[i].attempts = 2
              /\ mr[r].tasks[i].assignedTo # ""
              /\ ~mr[r].tasks[i].completed

\* ---- runCommand: case "audio" ----
\* the second token of an audio command
AudioSubverbs == {"list", "get", "upload", "start", "cancel", "status", "play"}
ObjectStoreSubverbs == {"list", "get", "upload"}

\* handleMapReduceCommand(tokens): report, status and cancel are told apart
\* by the first token, anything else goes to startMapReduce.  Here with the
\* tokens of a command that names request r and n tasks.
handleMapReduceCommand(sub, r, n) ==
    CASE sub = "cancel" -> MapReduceCancel(r)
      [] sub = "status" ->
            /\ Commit(Hub)
            /\ reportReply' = NoReport
            /\ UNCHANGED joinProc
            /\ UNCHANGED kvVars
            /\ UNCHANGED distVars
      [] OTHER -> MapReduceStart(r, n)

\* audio <subverb> ...: list, get and upload return from their branches;
\* after the if-chain the case has no return and no break, and control
\* continues in case "mapreduce" with parts.slice(1)
AudioCommand(sub, r, n) ==
    IF sub \in ObjectStoreSubverbs
    THEN /\ Commit(Hub)
         /\ reportReply' = NoReport
         /\ UNCHANGED joinProc
         /\ UNCHANGED kvVars
         /\ UNCHANGED distVars
    ELSE handleMapReduceCommand(sub, r, n)

NextAudio ==
    \/ NextDepartures
    \/ \E sub \in AudioSubverbs, r \in MrIds, n \in TaskIds :
          AudioCommand(sub, r, n)
    \/ \E r \in MrIds, i \in TaskIds, kind \in DispatchKinds, o \in Outcomes :
          MapReduceDelivery(r, i, kind, o)
    \/ \E r \in MrIds, i \in TaskIds : MapReduceReassign(r, i)
    \/ \E r \in MrIds, i \in TaskIds, rep \in ReportInputs :
          MapReduceReport(r, i, rep.result, rep.failed, rep.metadata)
    \/ \E r \in MrIds : MapReduceTimeout(r)

\* the established registry, with audio as the only command that is sent
SpecAudio == InitEstablished /\ [][NextAudio]_vars

\* C32: an audio command whose subverb is none of list/get/upload has no
\* effect on hub state: it creates no pending map-reduce, starts no timer
\* and delivers no message to any worker.
C32_UnknownAudioHasNoEffect ==
    [][\A sub \in AudioSubverbs \ ObjectStoreSubverbs,
          r \in MrIds, n \in TaskIds :
            AudioCommand(sub, r, n)
            => /\ mr' = mr
               /\ mrProc' = mrProc
               /\ mrTimers' = mrTimers
               /\ mrSummary' = mrSummary
               /\ clients' = clients
               /\ events' = <<>>]_vars

\* the mapreduce-task messages this step handed to a stub, by the dispatch
\* that now waits for each
Sent == mrProc' \ mrProc

\* C33: once a map-reduce has been resolved (all tasks complete, cancel, or
\* timeout), no further mapreduce-task message carrying its requestId is
\* delivered to any worker, neither by the start loop that is still
\* dispatching nor by a reassignment that was scheduled or in flight.
C33_NoTaskMessageAfterResolution ==
    [][\A K \in Sent : mr[K.req].status # "resolved"]_vars

\* C34: once a task's completedAt is set, the task is never dispatched
\* again and its completedAt, result, error, assignedTo, assignedAt and
\* attempts never change (so no result entry has a negative durationMs); in
\* particular a reassignment scheduled by a departure does not touch a task
\* that was reported in the meantime.
C34_CompletedTaskIsFrozen ==
    [][\A r \in MrIds :
          mr[r].status = "pending" =>
             \A i \in 1..Len(mr[r].tasks) :
                mr[r].tasks[i].completed
                => /\ mr'[r].tasks[i] = mr[r].tasks[i]
                   /\ \A K \in Sent : ~(K.req = r /\ K.task = i)]_vars

\* the registry holds a client with this id
Registered(id) == \E j \in 1..Len(clients) : IdOf(clients[j]) = id

\* C35: whenever no dispatch or scheduled reassignment is outstanding, every
\* uncompleted task of a pending map-reduce that has assignedTo set is
\* assigned to a client that is currently in the registry; a client that
\* leaves while the delivery of a task to it is still in flight does not
\* end up as the recorded assignee of that task.
C35_AssigneeIsRegistered ==
    (mrProc = {} /\ mrTimers = {})
    => \A r \in MrIds :
          mr[r].status = "pending" =>
             \A i \in 1..Len(mr[r].tasks) :
                (~mr[r].tasks[i].completed /\ mr[r].tasks[i].assignedTo # "")
                => Registered(mr[r].tasks[i].assignedTo)

\* the join of h has come to its client-joined broadcast
JoinedBroadcastReached(h) == joinProc[h].pc \in {"joined", "ok"}

\* C36: every client-left event broadcast for a client is preceded by a
\* client-joined broadcast for that same client: no client-left is emitted
\* for a client whose join failed or had not yet reached its client-joined
\* step.
C36_LeftOnlyAfterJoined ==
    [][\A h \in Handles :
          EventsOf(events', "client-left", h) # <<>>
          => JoinedBroadcastReached(h)]_vars

CouldNotReach == "Benchmark request could not reach any clients"

\* C37: if a benchmark summary carries the message that the request could
\* not reach any clients, then its results list is empty (responded = 0):
\* that message is never produced for a benchmark in which some client
\* received the request and reported.
C37_UnreachableMeansNoResults ==
    \A r \in ReqIds :
        (benchSummary[r].resolved /\ benchSummary[r].message = CouldNotReach)
        => /\ benchSummary[r].results = <<>>
           /\ benchSummary[r].responded = 0

\* no benchmark-request delivery of request r is awaited
DispatchOver(r) == bench[r].waiting = {}

\* a step in which no delivery of r settles (a report, a departure, a
\* timer) and that leaves r pending leaves it someone to wait for
C38_LastExpectedResolves ==
    \A r \in ReqIds :
        ( /\ bench[r].status = "pending"
          /\ bench[r].expected # {}
          /\ bench'[r].waiting = bench[r].waiting
          /\ bench'[r].status = "pending" )
        => bench'[r].expected # {}

C38_PendingExpectsSomeone ==
    \A r \in ReqIds :
        (bench[r].status = "pending" /\ DispatchOver(r))
        => bench[r].expected # {}

\* C38: whenever no benchmark dispatch is in progress, every pending
\* benchmark has a non-empty expected-set: a benchmark is resolved in the
\* same step in which a report or a departure removes its last expected
\* client, without waiting for the timer.
C38_NoPendingWithoutExpected ==
    [][C38_LastExpectedResolves]_vars /\ []C38_PendingExpectsSomeone

\* two clients received the request, one reported, and the departure of the
\* other resolved the request
C38_Witness ==
    \E r \in ReqIds :
        /\ bench[r].status = "resolved"
        /\ bench[r].snapshot = MaxHandles
        /\ DispatchOver(r)
        /\ benchSummary[r].message = "Benchmark completed"
        /\ benchSummary[r].responded = 1
        /\ \E h \in Handles : EventsOf(events, "departure", h) # <<>>
        /\ reportReply = NoReport

\* C39: when join returns successfully, the joining client is an entry of
\* the registry at that moment and the returned total counts it: a join
\* never succeeds, and client-joined is never broadcast, for a session that
\* was removed while its client-list or client-match delivery was in
\* flight.
C39_JoinedClientIsRegistered ==
    [][\A h \in Handles :
          /\ EventsOf(events', "client-joined", h) # <<>>
                => InSeq(h, clients)
          /\ (joinProc[h].pc # "ok" /\ joinProc'[h].pc = "ok")
                => InSeq(h, clients')]_vars

\* C40: whenever no KV operation and no alarm handler is in flight and some
\* stored entry has an expiry, an alarm is set and its time is not later
\* than the smallest expiresAt among the stored entries, so no entry with a
\* TTL can outlive its expiry without a sweep being scheduled for it.
C40_AlarmCoversEarliestExpiry ==
    (InFlight = 0 /\ Expiring(store) # {})
    => /\ alarm # NoAlarm
       /\ alarm <= EarliestExpiry(store)

====
